---- MODULE Spec2Model ----
(***************************************************************************)
(* Workspace session engine of colab_backend (src/server.ts, lines 1-1283, *)
(* and src/permission-manager-backend.ts): membership, element locks,      *)
(* entity versions with If-Match, permission resolution, join tickets and  *)
(* the empty-workspace cleanup timer.                                      *)
(*                                                                         *)
(* Encoding of JavaScript values:                                          *)
(*   - a Map is a function whose DOMAIN is the key set; the member map and *)
(*     the lock map, whose iteration order is observable in the frames     *)
(*     they produce, are sequences of entries in insertion order;          *)
(*   - undefined is None (strings), 0 (numbers), <<>> (objects);           *)
(*   - an element key `${type}:${id}` is the pair <<type, id>> and an ETag *)
(*     W/"<key>:<version>" is the pair <<key, version>> (ids of the model  *)
(*     contain no colon, so the encoding is one to one);                   *)
(*   - one clock `now` stands for Date.now(); one unit is one second.      *)
(***************************************************************************)
EXTENDS Integers, Sequences, FiniteSets, TLC

\* ------------------------------------------------------------------ bounds
\* The last second the clock reaches.
MaxTime == 2
\* The highest version of a lock or an entity.
MaxVersion == 3
\* The number of auth handlers suspended at the same time.
MaxInFlight == 2
\* The number of auth frames, and of mutation frames, the server handles.
MaxAuthFrames == 3
MaxEntityFrames == 3

\* ------------------------------------------------------ program constants
\* COLAB_EMPTY_WORKSPACE_RETENTION_MS, set to one unit of the clock.
EMPTY_WORKSPACE_RETENTION_MS == 1

\* ------------------------------------------------------------- input sets
Users == {"u1", "u2"}
Workspaces == {"w"}
Conns == {"c1", "c2", "c3"}
UserRoles == {"ADMIN", "TEACHER", "STUDENT", "PARENT"}

None == "none"
Null == "null"
NoEtag == << >>
NoPerms == << >>

PERMISSION_KEYS ==
  {"canView", "canEditBlocks", "canAddBlocks", "canDeleteBlocks",
   "canEditSprites", "canAddSprites", "canDeleteSprites",
   "canEditVariables", "canAddVariables", "canDeleteVariables",
   "canRunCode", "canStopCode", "canChat", "canDraw", "canUploadAssets",
   "canEditCostumes", "canEditSounds", "canRecordAudio", "canUseCamera",
   "canShareProject", "canManageUsers", "canChangePermissions",
   "canKickUsers", "canLockWorkspace"}

isPermissionKey(value) == value \in PERMISSION_KEYS

\* ------------------------------------------------------- generic Map help
MapSet(m, k, v) == [x \in (DOMAIN m) \cup {k} |-> IF x = k THEN v ELSE m[x]]
\* Mutant: Map.prototype.delete removes nothing.
MapDelete_Keep(m, k) == m

MapDelete(m, k) == [x \in (DOMAIN m) \ {k} |-> m[x]]
EmptyMap == [x \in {} |-> None]

\* --------------------------------------------------- permission templates
DEFAULT_PERMISSIONS ==
  [k \in PERMISSION_KEYS |-> k \in {"canView", "canChat"}]

getOwnerPermissions == [k \in PERMISSION_KEYS |-> TRUE]

getTeacherPermissions ==
  [k \in PERMISSION_KEYS |->
     IF k \in {"canView", "canEditBlocks", "canAddBlocks", "canDeleteBlocks",
               "canEditSprites", "canAddSprites", "canDeleteSprites",
               "canEditVariables", "canAddVariables", "canDeleteVariables",
               "canRunCode", "canStopCode", "canChat", "canDraw",
               "canUploadAssets", "canEditCostumes", "canEditSounds",
               "canChangePermissions", "canManageUsers", "canKickUsers"}
     THEN TRUE ELSE DEFAULT_PERMISSIONS[k]]

getStudentPermissions ==
  [k \in PERMISSION_KEYS |->
     IF k \in {"canView", "canChat"} THEN TRUE ELSE DEFAULT_PERMISSIONS[k]]

\* ------------------------------------------------------------------ state
VARIABLES
  env,                     \* process.env, read once when the module loads
  now,                     \* Date.now()
  conns,                   \* per connection: socket state and closure variables
  inflight,                \* auth handlers suspended in `await verifyJoinTicket`
  authFrames,              \* number of auth frames received so far
  workspaces,              \* Map<workspaceId, Map<userId, ClientState>>
  workspaceLocks,          \* Map<workspaceId, Map<elementId, {lockedBy, version}>>
  workspaceCleanupTimers,  \* Map<workspaceId, timer>, a timer is its due time
  workspaceSharedState,    \* Map<workspaceId, WorkspaceSharedState>
  workspacePermissions,    \* PermissionManagerBackend.workspacePermissions
  consumedTicketIds,       \* Map<jti, exp>
  admittedTicketIds,       \* history: the jti of every ticket admitted so far
  lockGrants,              \* history: per element, the version last granted
  published,               \* history: per entity, the last version broadcast
  entityFrames,            \* history: the number of mutation frames handled
  lastFrame,               \* the inbound frame or event handled by the last step
  sent,                    \* ws.send calls of the last step, in order
  wsClient                 \* the WebSocketClient of one browser tab

vars == <<env, now, conns, inflight, authFrames, workspaces, workspaceLocks,
          workspaceCleanupTimers, workspaceSharedState, workspacePermissions,
          consumedTicketIds, admittedTicketIds, lockGrants, published, entityFrames,
          lastFrame, sent, wsClient>>

\* The variables of the server.
serverVars == <<env, now, conns, inflight, authFrames, workspaces, workspaceLocks,
                workspaceCleanupTimers, workspaceSharedState, workspacePermissions,
                consumedTicketIds, admittedTicketIds, lockGrants, published,
                entityFrames, lastFrame, sent>>


\* ------------------------------------------- insertion-ordered Map (pairs)
\* A JavaScript Map whose iteration order matters: a sequence of <<key, value>>.
OMapKeys(m) == {m[i][1] : i \in 1..Len(m)}
OMapHas(m, k) == \E i \in 1..Len(m) : m[i][1] = k
OMapGet(m, k) == m[CHOOSE i \in 1..Len(m) : m[i][1] = k][2]
OMapSet(m, k, v) ==
  IF OMapHas(m, k)
  THEN [i \in 1..Len(m) |-> IF m[i][1] = k THEN <<k, v>> ELSE m[i]]
  ELSE Append(m, <<k, v>>)
\* Mutant: the entry stays in the map.
OMapDelete_Keep(m, k) == m

OMapDelete(m, k) == SelectSeq(m, LAMBDA e : e[1] # k)
OMapValues(m) == [i \in 1..Len(m) |-> m[i][2]]

RECURSIVE FlattenSeq(_)
FlattenSeq(ss) == IF ss = << >> THEN << >> ELSE Head(ss) \o FlattenSeq(Tail(ss))

\* ------------------------------------------------------------ JSON values
\* The `value` of a permission frame is a JSON literal.
JsonValues == {"true", "false", "1"}
IsBoolean(v) == v \in {"true", "false"}
ToBoolean(v) == v = "true"

\* ------------------------------------------------ PermissionManagerBackend
\* Every operator takes the manager's workspacePermissions map and returns
\* the map after the call.
initializeWorkspace(wp, workspaceId) ==
  MapSet(wp, workspaceId,
         [globalPermissions |-> getStudentPermissions,
          userPermissions |-> EmptyMap,
          isLocked |-> FALSE])

getUserPermissions(wp, workspaceId, userId) ==
  IF workspaceId \notin DOMAIN wp THEN getStudentPermissions
  ELSE IF userId \in DOMAIN wp[workspaceId].userPermissions
       THEN wp[workspaceId].userPermissions[userId]
       ELSE wp[workspaceId].globalPermissions

updateGlobalPermission(wp, workspaceId, permission, value) ==
  IF workspaceId \notin DOMAIN wp \/ ~isPermissionKey(permission) \/ ~IsBoolean(value)
  THEN wp
  ELSE [wp EXCEPT ![workspaceId].globalPermissions[permission] = ToBoolean(value)]

updateUserPermission(wp, workspaceId, userId, permission, value) ==
  IF workspaceId \notin DOMAIN wp \/ ~isPermissionKey(permission) \/ ~IsBoolean(value)
  THEN wp
  ELSE LET ws0 == wp[workspaceId]
           up0 == IF userId \in DOMAIN ws0.userPermissions
                  THEN ws0.userPermissions
                  ELSE MapSet(ws0.userPermissions, userId, ws0.globalPermissions)
           up1 == [up0 EXCEPT ![userId][permission] = ToBoolean(value)]
       IN [wp EXCEPT ![workspaceId].userPermissions = up1]

\* Mutant: the per-user entry is left as it is.
setUserAsTeacher_Keep(wp, workspaceId, userId) == wp

setUserAsTeacher(wp, workspaceId, userId) ==
  IF workspaceId \notin DOMAIN wp THEN wp
  ELSE [wp EXCEPT ![workspaceId].userPermissions =
          MapSet(@, userId, getTeacherPermissions)]

setUserAsAdmin(wp, workspaceId, userId) ==
  IF workspaceId \notin DOMAIN wp THEN wp
  ELSE [wp EXCEPT ![workspaceId].userPermissions =
          MapSet(@, userId, getOwnerPermissions)]

clearUserPermissions(wp, workspaceId, userId) ==
  IF workspaceId \notin DOMAIN wp THEN wp
  ELSE [wp EXCEPT ![workspaceId].userPermissions = MapDelete(@, userId)]

PresetModes == {"presentation", "work", "test", "restricted"}

PresetPermissions(mode) ==
  CASE mode = "presentation" ->
         [DEFAULT_PERMISSIONS EXCEPT !["canView"] = TRUE, !["canChat"] = FALSE]
    [] mode = "work" ->
         [DEFAULT_PERMISSIONS EXCEPT !["canView"] = TRUE, !["canEditBlocks"] = TRUE,
            !["canAddBlocks"] = TRUE, !["canEditSprites"] = TRUE,
            !["canRunCode"] = TRUE, !["canChat"] = TRUE]
    [] OTHER ->
         [DEFAULT_PERMISSIONS EXCEPT !["canView"] = TRUE,
            !["canRunCode"] = (mode = "test"), !["canChat"] = FALSE]

\* Mutant: a mode that is no preset is applied like restricted.
applyPresetMode_DefaultRestricted(wp, workspaceId, mode) ==
  IF workspaceId \notin DOMAIN wp THEN wp
  ELSE [wp EXCEPT ![workspaceId].globalPermissions = PresetPermissions(mode)]

\* Mutant: the preset is merged into the previous global set.
applyPresetMode_Merge(wp, workspaceId, mode) ==
  IF workspaceId \notin DOMAIN wp \/ mode \notin PresetModes THEN wp
  ELSE [wp EXCEPT ![workspaceId].globalPermissions =
          [k \in PERMISSION_KEYS |-> @[k] \/ PresetPermissions(mode)[k]]]

applyPresetMode(wp, workspaceId, mode) ==
  IF workspaceId \notin DOMAIN wp \/ mode \notin PresetModes THEN wp
  ELSE [wp EXCEPT ![workspaceId].globalPermissions = PresetPermissions(mode)]

\* Mutant: every permission is granted.
hasPermission_Always(wp, workspaceId, userId, permission) == TRUE

hasPermission(wp, workspaceId, userId, permission) ==
  getUserPermissions(wp, workspaceId, userId)[permission]

deleteWorkspace(wp, workspaceId) == MapDelete(wp, workspaceId)

\* ------------------------------------ ClientState.permissions (an alias)
\* getUserPermissions returns the manager's own object, so the `permissions`
\* field of a ClientState aliases either the live global object, or the live
\* per-user object of that user, or an object the manager no longer holds
\* (kind "value": nothing can change it any more).  Every handler that makes
\* the manager replace an object also reassigns the fields that aliased it.
PermRefGlobal == [kind |-> "global", value |-> NoPerms]
PermRefUser == [kind |-> "user", value |-> NoPerms]
PermRefValue(p) == [kind |-> "value", value |-> p]

getUserPermissionsRef(wp, workspaceId, userId) ==
  IF workspaceId \notin DOMAIN wp THEN PermRefValue(getStudentPermissions)
  ELSE IF userId \in DOMAIN wp[workspaceId].userPermissions
       THEN PermRefUser ELSE PermRefGlobal

\* The value a ClientState.permissions field reads as (JSON.stringify).
ClientPermissions(wp, workspaceId, client) ==
  CASE client.permissions.kind = "value" -> client.permissions.value
    [] client.permissions.kind = "user" ->
         wp[workspaceId].userPermissions[client.id]
    [] OTHER -> wp[workspaceId].globalPermissions

\* --------------------------------------------------------------- payloads
\* A payload value (elementData, or the fields of a sprite_update): a JSON
\* object with an optional string `id` ("" when absent) and optional numbers
\* x and position, or a value that is not an object.  x and position are
\* JSON literals: "undefined" when absent, a number ("0", "1") or a string
\* that is not a number ("abc").
NoNum == -1
Undefined == "undefined"
JsonNumbers == {"undefined", "0", "1", "abc"}
NoData == [isRecord |-> FALSE, id |-> "", x |-> Undefined, position |-> Undefined]
RecordData(id, x, position) ==
  [isRecord |-> TRUE, id |-> id, x |-> x, position |-> position]
isRecord(value) == value.isRecord

\* Number(value) when finite, else null (NoNum).
normalizeFiniteNumber(value) ==
  CASE value = "0" -> 0
    [] value = "1" -> 1
    [] OTHER -> NoNum

\* The submitted If-Match: absent (NoEtag), the wildcard, or an ETag.
Star == <<"*">>

\* ----------------------------------------------------------------- frames
\* Outbound frames share one record shape; a field a frame does not carry
\* holds the encoding of undefined.
Frame ==
  [type |-> "", message |-> None, userId |-> None, workspaceId |-> None,
   elementId |-> None, elementType |-> None, lockedBy |-> None,
   version |-> 0, reason |-> None, permissions |-> NoPerms, source |-> None,
   mode |-> None, role |-> None, etag |-> NoEtag, ifMatch |-> NoEtag,
   firstEditedBy |-> None, firstEditedAt |-> 0, data |-> NoData,
   spriteMetricsVersion |-> 0, users |-> << >>, sharedState |-> << >>]

ErrorFrame(text) == [Frame EXCEPT !.type = "error", !.message = text]

\* One ws.send call: the socket and the frame.
Send(ws, frame) == [to |-> ws, msg |-> frame]

SentTypes == {sent[i].msg.type : i \in 1..Len(sent)}
SentTo(ws) == SelectSeq(sent, LAMBDA s : s.to = ws)

\* The inbound frame (or event) a step handled, with the closure variables
\* userId / workspaceId of the connection as they were when it was handled.
Inbound ==
  [type |-> "", ws |-> None, userId |-> None, workspaceId |-> None,
   jti |-> None, sub |-> None, elementId |-> None, elementType |-> None,
   ifMatch |-> NoEtag, permission |-> None, value |-> None,
   targetUserId |-> None, mode |-> None, data |-> NoData, outcome |-> None]

\* ------------------------------------------------------------ connections
ConnIndex(c) == CHOOSE i \in 1..3 : c = <<"c1", "c2", "c3">>[i]

NoConn ==
  [readyState |-> "NONE", transport |-> "ok", closeCode |-> 0, userId |-> None,
   workspaceId |-> None, isAuthenticated |-> FALSE, skipCleanup |-> FALSE]

\* Mutant: ws.close has no effect.
WsClose_Ignored(cs, ws, code) == cs

\* ws.close(code): starts the closing handshake of an open socket.
WsClose(cs, ws, code) ==
  IF cs[ws].readyState = "OPEN"
  THEN [cs EXCEPT ![ws].readyState = "CLOSING", ![ws].closeCode = code]
  ELSE cs

\* A message or close event is a macrotask: it is not dispatched while the
\* continuation of a resolved verifyJoinTicket promise is still queued.
NoMicrotaskPending == \A a \in inflight : a.phase = "verifying"

CanReceive(c) == conns[c].readyState \in {"OPEN", "CLOSING"} /\ NoMicrotaskPending

\* ---------------------------------------------------------------- fan-out
\* Mutant: a send that fails throws, which ends the forEach: the members after
\* the first open socket whose transport has failed are not sent to.
broadcastToWorkspace_AbortOnFailure(cs, wss, workspaceId, senderId, message) ==
  IF workspaceId \notin DOMAIN wss THEN << >>
  ELSE LET members == wss[workspaceId]
           reached(i) == \A j \in 1..(i - 1) :
                           \/ members[j][1] = senderId
                           \/ cs[members[j][2].ws].readyState # "OPEN"
                           \/ cs[members[j][2].ws].transport = "ok"
           open == SelectSeq([i \in 1..Len(members) |-> <<i, members[i]>>],
                     LAMBDA e : /\ e[2][1] # senderId
                                /\ cs[e[2][2].ws].readyState = "OPEN"
                                /\ reached(e[1]))
       IN [i \in 1..Len(open) |-> Send(open[i][2][2].ws, message)]

\* Mutant: the broadcast reaches nobody.
broadcastToWorkspace_Nobody(cs, wss, workspaceId, senderId, message) == << >>

\* broadcastToWorkspace: the ws.send calls it makes, in member-map order.
broadcastToWorkspace(cs, wss, workspaceId, senderId, message) ==
  IF workspaceId \notin DOMAIN wss THEN << >>
  ELSE LET members == wss[workspaceId]
           open == SelectSeq(members,
                     LAMBDA e : e[1] # senderId /\ cs[e[2].ws].readyState = "OPEN")
       IN [i \in 1..Len(open) |-> Send(open[i][2].ws, message)]

\* ------------------------------------------------------------ shared state
EmptySharedState ==
  [elements |-> EmptyMap, spriteMetrics |-> EmptyMap, workspaceSnapshots |-> EmptyMap]

ensureWorkspaceSharedState(wss, workspaceId) ==
  IF workspaceId \in DOMAIN wss THEN wss ELSE MapSet(wss, workspaceId, EmptySharedState)

buildEntityEtag(entityKey, version) == <<entityKey, version>>

\* sharedStateToPayload: the arrays of the three maps (as sets of records).
sharedStateToPayload(state) ==
  [elements |-> {state.elements[k] : k \in DOMAIN state.elements},
   spriteMetrics |-> {state.spriteMetrics[k] : k \in DOMAIN state.spriteMetrics},
   workspaceSnapshots |-> {state.workspaceSnapshots[k] : k \in DOMAIN state.workspaceSnapshots}]

\* ------------------------------------------------------------------- Init
\* The environment of the deployments the other specifications model: a
\* join secret is configured, and tickets signed with it carry sig "ok".
ConfiguredEnv ==
  [COLAB_JOIN_TOKEN_SECRET |-> "ok", CRON_SECRET |-> None,
   NODE_ENV |-> "production"]

\* ------------------------------------------- WebSocketClient (the client)
\* lib/client/CollaborativeApp.ts.  The client creates one browser WebSocket
\* per connect() and binds its handlers to that socket; this.ws points to the
\* socket of the last connect(), or to nothing (0) after disconnect().  A
\* browser socket is its readyState; `timers` counts the reconnect timers that
\* are armed.  `disconnected` and `event` are history: whether disconnect() was
\* called since the application last called connect(), and the last step.
MaxClientSockets == 3
maxReconnectAttempts == 2
CloseCodes == {1000, 1006, 4001, 4003}

ClientEvent(type, socket, code) == [type |-> type, socket |-> socket, code |-> code]

\* The client after its constructor.
NewClient ==
  [ws |-> 0, isAuthenticated |-> FALSE, reconnectAttempts |-> 0,
   sockets |-> << >>, timers |-> 0, disconnected |-> FALSE,
   event |-> ClientEvent("", 0, 0)]

\* connect(): this.ws = new WebSocket(url).
connect(cl) ==
  [cl EXCEPT !.sockets = Append(@, "CONNECTING"), !.ws = Len(cl.sockets) + 1]

\* WebSocket.close(): nothing on a socket that is closing or closed.
BrowserClose(readyState) ==
  IF readyState \in {"CONNECTING", "OPEN"} THEN "CLOSING" ELSE readyState

\* disconnect().
disconnect(cl) ==
  IF cl.ws = 0 THEN cl
  ELSE [cl EXCEPT !.reconnectAttempts = maxReconnectAttempts,
                  !.sockets[cl.ws] = BrowserClose(@),
                  !.ws = 0]

\* ws.onclose of one socket: the close event with its code.
onclose(cl, s, code) ==
  LET cl1 == [cl EXCEPT !.isAuthenticated = FALSE, !.sockets[s] = "CLOSED"]
  IN IF code = 4003 THEN cl1
     ELSE IF cl1.reconnectAttempts < maxReconnectAttempts
          THEN [cl1 EXCEPT !.reconnectAttempts = @ + 1, !.timers = @ + 1]
          ELSE cl1

\* The state when the module has loaded in environment e.
InitEnv(e) ==
  /\ env = e
  /\ now = 1
  /\ conns = [c \in Conns |-> NoConn]
  /\ inflight = {}
  /\ authFrames = 0
  /\ workspaces = EmptyMap
  /\ workspaceLocks = EmptyMap
  /\ workspaceCleanupTimers = EmptyMap
  /\ workspaceSharedState = EmptyMap
  /\ workspacePermissions = EmptyMap
  /\ consumedTicketIds = EmptyMap
  /\ admittedTicketIds = {}
  /\ lockGrants = EmptyMap
  /\ published = EmptyMap
  /\ entityFrames = 0
  /\ lastFrame = Inbound
  /\ sent = << >>
  /\ wsClient = NewClient

Init == InitEnv(ConfiguredEnv)

\* Time passes.
Tick ==
  /\ now < MaxTime
  /\ now' = now + 1
  /\ lastFrame' = [Inbound EXCEPT !.type = "tick"]
  /\ sent' = << >>
  /\ UNCHANGED <<wsClient, env, conns, inflight, authFrames, workspaces, workspaceLocks,
                 workspaceCleanupTimers, workspaceSharedState,
                 workspacePermissions, consumedTicketIds, admittedTicketIds,
                 lockGrants, published, entityFrames>>

\* wss.on('connection'): a new socket with fresh closure variables.  Sockets
\* are named in the order in which they connect.
Connect(c) ==
  /\ conns[c].readyState = "NONE"
  /\ \A d \in Conns : ConnIndex(d) < ConnIndex(c) => conns[d].readyState # "NONE"
  /\ NoMicrotaskPending
  /\ conns' = [conns EXCEPT ![c].readyState = "OPEN"]
  /\ lastFrame' = [Inbound EXCEPT !.type = "connection", !.ws = c]
  /\ sent' = << >>
  /\ UNCHANGED <<wsClient, env, now, inflight, authFrames, workspaces, workspaceLocks,
                 workspaceCleanupTimers, workspaceSharedState,
                 workspacePermissions, consumedTicketIds, admittedTicketIds,
                 lockGrants, published, entityFrames>>


\* The transport under an open socket fails (the peer is gone, a write
\* errors): readyState stays OPEN until the close event, ws.send to the socket
\* still returns, and the failure is reported to ws.on('error') later.
TransportError(c) ==
  /\ conns[c].readyState = "OPEN"
  /\ conns[c].transport = "ok"
  /\ NoMicrotaskPending
  /\ conns' = [conns EXCEPT ![c].transport = "failed"]
  /\ lastFrame' = [Inbound EXCEPT !.type = "transport_error", !.ws = c]
  /\ sent' = << >>
  /\ UNCHANGED <<wsClient, env, now, inflight, authFrames, workspaces, workspaceLocks,
                 workspaceCleanupTimers, workspaceSharedState,
                 workspacePermissions, consumedTicketIds, admittedTicketIds,
                 lockGrants, published, entityFrames>>

\* ----------------------------------------------------------- join tickets
\* A token is a signed ticket: its claims, and in sig the secret it was
\* signed with ("bad" also stands for a wrong algorithm or audience).
Ticket(sub, workspaceId, jti, exp, role, sig) ==
  [sub |-> sub, workspaceId |-> workspaceId, jti |-> jti, exp |-> exp,
   role |-> role, sig |-> sig]

pruneConsumedTicketIds(consumed, nowSeconds) ==
  [j \in {k \in DOMAIN consumed : consumed[k] > nowSeconds} |-> consumed[j]]

\* The optional fields `workspace` and `userId` of an auth frame are JSON
\* values: absent (None), the number 42 ("42"), or a string.  "x129" stands
\* for a string of 129 characters; the other strings of the model are short.
IsJsonString(value) == value \notin {None, "42"}
StringLength(value) == IF value = "x129" THEN 129 ELSE 2

\* String.prototype.trim on the strings of the model.
Trim(value) ==
  CASE value = " w2 " -> "w2"
    [] value = " u2 " -> "u2"
    [] value = "  " -> ""
    [] OTHER -> value

\* Mutant: the development secret is the fallback in production too.
resolveJoinSecret_DevAlways(e) ==
  IF Trim(e.COLAB_JOIN_TOKEN_SECRET) \notin {None, ""}
  THEN Trim(e.COLAB_JOIN_TOKEN_SECRET)
  ELSE IF Trim(e.CRON_SECRET) \notin {None, ""} THEN Trim(e.CRON_SECRET)
  ELSE "dev-colab-join-secret"

\* resolveJoinSecret: `?.trim()` of an unset variable is undefined, and both
\* undefined and the empty string are falsy.
resolveJoinSecret(e) ==
  IF Trim(e.COLAB_JOIN_TOKEN_SECRET) \notin {None, ""}
  THEN Trim(e.COLAB_JOIN_TOKEN_SECRET)
  ELSE IF Trim(e.CRON_SECRET) \notin {None, ""} THEN Trim(e.CRON_SECRET)
  ELSE IF e.NODE_ENV # "production" THEN "dev-colab-join-secret"
  ELSE ""

JOIN_SECRET == resolveJoinSecret(env)
joinSecretKey == IF JOIN_SECRET # "" THEN JOIN_SECRET ELSE Null

\* jwtVerify: signature, algorithm and audience check, then the exp claim
\* against the clock (a ticket whose exp is not in the future is rejected).
jwtVerify(token, key, nowSeconds) == token.sig = key /\ token.exp > nowSeconds

\* verifyJoinTicket up to the claims it returns: null without a key.
verifyJoinTicket(token, nowSeconds) ==
  IF joinSecretKey = Null THEN FALSE
  ELSE jwtVerify(token, joinSecretKey, nowSeconds)

\* Mutant: the replay check is missing.
ticketReplayed_Never(consumed, jti) == FALSE

\* consumedTicketIds.has(ticketClaims.ticketId) (server.ts 391).
ticketReplayed(consumed, jti) == jti \in DOMAIN consumed

\* Mutant: a pending timer is left in place.
clearWorkspaceCleanupTimer_Keep(timers, workspaceId) == timers

clearWorkspaceCleanupTimer(timers, workspaceId) == MapDelete(timers, workspaceId)

\* ------------------------------------------------------------------- auth
\* case 'auth' with an empty or missing token (server.ts 376-381).
AuthMissing(c) ==
  /\ CanReceive(c)
  /\ authFrames < MaxAuthFrames
  /\ authFrames' = authFrames + 1
  /\ sent' = <<Send(c, ErrorFrame("Missing join ticket"))>>
  /\ conns' = WsClose(conns, c, 4003)
  /\ lastFrame' = [Inbound EXCEPT !.type = "auth", !.ws = c,
                     !.userId = conns[c].userId, !.workspaceId = conns[c].workspaceId,
                     !.outcome = "rejected"]
  /\ UNCHANGED <<wsClient, env, now, inflight, workspaces, workspaceLocks,
                 workspaceCleanupTimers, workspaceSharedState,
                 workspacePermissions, consumedTicketIds, admittedTicketIds,
                 lockGrants, published, entityFrames>>

\* case 'auth' up to `await verifyJoinTicket(token)`: the handler suspends.
\* workspace / userId are the optional fields of the frame as they were sent
\* (None: absent).
AuthBegin(c, token, workspace, userId) ==
  /\ CanReceive(c)
  /\ Cardinality(inflight) < MaxInFlight
  /\ \A a \in inflight : a.ws # c
  /\ authFrames < MaxAuthFrames
  /\ authFrames' = authFrames + 1
  /\ inflight' = inflight \cup
       {[ws |-> c, token |-> token, workspace |-> workspace, userId |-> userId,
         phase |-> "verifying", ticketClaims |-> FALSE]}
  /\ lastFrame' = [Inbound EXCEPT !.type = "auth_await", !.ws = c,
                     !.userId = conns[c].userId, !.workspaceId = conns[c].workspaceId,
                     !.jti = token.jti, !.sub = token.sub]
  /\ sent' = << >>
  /\ UNCHANGED <<wsClient, env, now, conns, workspaces, workspaceLocks,
                 workspaceCleanupTimers, workspaceSharedState,
                 workspacePermissions, consumedTicketIds, admittedTicketIds,
                 lockGrants, published, entityFrames>>

\* verifyJoinTicket settles: jwtVerify has checked the token against the
\* clock; the continuation of the auth handler is queued as a microtask.
AuthVerify(a) ==
  /\ a \in inflight
  /\ a.phase = "verifying"
  /\ NoMicrotaskPending
  /\ inflight' = (inflight \ {a}) \cup
       {[a EXCEPT !.phase = "verified", !.ticketClaims = verifyJoinTicket(a.token, now)]}
  /\ lastFrame' = [Inbound EXCEPT !.type = "auth_verify", !.ws = a.ws,
                     !.jti = a.token.jti, !.sub = a.token.sub]
  /\ sent' = << >>
  /\ UNCHANGED <<wsClient, env, now, conns, authFrames, workspaces, workspaceLocks,
                 workspaceCleanupTimers, workspaceSharedState,
                 workspacePermissions, consumedTicketIds, admittedTicketIds,
                 lockGrants, published, entityFrames>>

AuthReject(a, consumed, text) ==
  /\ sent' = <<Send(a.ws, ErrorFrame(text))>>
  /\ conns' = WsClose(conns, a.ws, 4003)
  /\ consumedTicketIds' = consumed
  /\ UNCHANGED <<admittedTicketIds, lockGrants, published, entityFrames>>
  /\ lastFrame' = [Inbound EXCEPT !.type = "auth", !.ws = a.ws,
                     !.userId = conns[a.ws].userId,
                     !.workspaceId = conns[a.ws].workspaceId,
                     !.jti = a.token.jti, !.sub = a.token.sub,
                     !.outcome = "rejected"]
  /\ UNCHANGED <<wsClient, env, now, authFrames, workspaces, workspaceLocks,
                 workspaceCleanupTimers, workspaceSharedState, workspacePermissions>>

UserSummary(wp, workspaceId, u) ==
  [userId |-> u.id, username |-> u.username, role |-> u.role,
   permissions |-> ClientPermissions(wp, workspaceId, u), isOwner |-> u.isOwner]

\* server.ts 411-503: the ticket is accepted.
AuthAdmit(a, consumed) ==
  LET ws == a.ws
      userId == a.token.sub
      workspaceId == a.token.workspaceId
      role == a.token.role
      conns1 == [conns EXCEPT ![ws].userId = userId,
                              ![ws].workspaceId = workspaceId,
                              ![ws].isAuthenticated = TRUE]
      isNew == workspaceId \notin DOMAIN workspaces
      wss1 == IF isNew THEN MapSet(workspaces, workspaceId, << >>) ELSE workspaces
      locks1 == IF isNew THEN MapSet(workspaceLocks, workspaceId, << >>)
                ELSE workspaceLocks
      wp1 == IF isNew THEN initializeWorkspace(workspacePermissions, workspaceId)
             ELSE workspacePermissions
      shared1 == ensureWorkspaceSharedState(workspaceSharedState, workspaceId)
      workspaceUsers == wss1[workspaceId]
      isReplacement == OMapHas(workspaceUsers, userId)
      existingWs == OMapGet(workspaceUsers, userId).ws
      conns2 == IF isReplacement /\ existingWs # ws
                THEN WsClose([conns1 EXCEPT ![existingWs].skipCleanup = TRUE],
                             existingWs, 4001)
                ELSE conns1
      wp2 == CASE role = "ADMIN" -> setUserAsAdmin(wp1, workspaceId, userId)
               [] role = "TEACHER" -> setUserAsTeacher(wp1, workspaceId, userId)
               [] OTHER -> clearUserPermissions(wp1, workspaceId, userId)
      user == [id |-> userId, username |-> "User", role |-> role, ws |-> ws,
               permissions |-> getUserPermissionsRef(wp2, workspaceId, userId),
               isOwner |-> (role = "ADMIN"), coords |-> << >>]
      \* the entry of userId is overwritten, every other entry is untouched
      wss2 == [wss1 EXCEPT ![workspaceId] = OMapSet(@, userId, user)]
      perms == ClientPermissions(wp2, workspaceId, user)
      authSuccess ==
        [Frame EXCEPT !.type = "auth_success", !.userId = userId,
           !.workspaceId = workspaceId, !.permissions = perms, !.role = role,
           !.sharedState = sharedStateToPayload(shared1[workspaceId]),
           !.users = [i \in 1..Len(wss2[workspaceId]) |->
                        UserSummary(wp2, workspaceId, wss2[workspaceId][i][2])]]
      notice ==
        [Frame EXCEPT !.type = IF isReplacement THEN "user_updated" ELSE "user_joined",
           !.userId = userId, !.permissions = perms, !.role = role]
  IN /\ consumedTicketIds' = MapSet(consumed, a.token.jti, a.token.exp)
     /\ admittedTicketIds' = admittedTicketIds \cup {a.token.jti}
     /\ UNCHANGED <<published, entityFrames, lockGrants>>
     /\ conns' = conns2
     /\ workspaceCleanupTimers' =
          clearWorkspaceCleanupTimer(workspaceCleanupTimers, workspaceId)
     /\ workspaces' = wss2
     /\ workspaceLocks' = locks1
     /\ workspacePermissions' = wp2
     /\ workspaceSharedState' = shared1
     /\ sent' = <<Send(ws, authSuccess)>> \o
                broadcastToWorkspace(conns2, wss2, workspaceId, userId, notice)
     /\ lastFrame' = [Inbound EXCEPT !.type = "auth", !.ws = ws,
                        !.userId = userId, !.workspaceId = workspaceId,
                        !.jti = a.token.jti, !.sub = a.token.sub,
                        !.outcome = IF isReplacement THEN "replaced" ELSE "joined"]
     /\ UNCHANGED <<wsClient, env, now, authFrames>>

normalizeUserId(value) ==
  IF ~IsJsonString(value) THEN ""
  ELSE IF Trim(value) = "" THEN ""
  ELSE IF StringLength(Trim(value)) > 128 THEN ""
  ELSE Trim(value)

normalizeWorkspaceId(value) ==
  IF ~IsJsonString(value) THEN ""
  ELSE IF Trim(value) = "" THEN ""
  ELSE IF StringLength(Trim(value)) > 128 THEN ""
  ELSE Trim(value)

\* case 'auth' after the await (server.ts 384-503).
AuthResume(a) ==
  /\ a \in inflight
  /\ a.phase = "verified"
  /\ inflight' = inflight \ {a}
  /\ LET pruned == pruneConsumedTicketIds(consumedTicketIds, now)
     IN IF ~a.ticketClaims
        THEN AuthReject(a, consumedTicketIds, "Invalid or expired join ticket")
        ELSE IF ticketReplayed(pruned, a.token.jti)
        THEN AuthReject(a, pruned, "Join ticket has already been used")
        ELSE IF normalizeWorkspaceId(a.workspace) # ""
                /\ normalizeWorkspaceId(a.workspace) # a.token.workspaceId
        THEN AuthReject(a, pruned, "Workspace mismatch in join ticket")
        ELSE IF normalizeUserId(a.userId) # ""
                /\ normalizeUserId(a.userId) # a.token.sub
        THEN AuthReject(a, pruned, "User mismatch in join ticket")
        ELSE AuthAdmit(a, pruned)


\* ------------------------------------------------------------------ close
\* Mutant: the timer is cancelled and not set again.
scheduleWorkspaceCleanup_Unarmed(timers, workspaceId, nowMs) == clearWorkspaceCleanupTimer(timers, workspaceId)

scheduleWorkspaceCleanup(timers, workspaceId, nowMs) ==
  MapSet(clearWorkspaceCleanupTimer(timers, workspaceId), workspaceId,
         nowMs + EMPTY_WORKSPACE_RETENTION_MS)

\* Mutant: the handler does not look at __skipCleanup.
closeRunsCleanup_IgnoresFlag(conn) ==
  conn.isAuthenticated /\ conn.workspaceId # None /\ conn.userId # None

\* The guards of the close handler (server.ts 1216-1220).
closeRunsCleanup(conn) ==
  /\ ~conn.skipCleanup
  /\ conn.isAuthenticated /\ conn.workspaceId # None /\ conn.userId # None

\* ws.on('close') (server.ts 1215-1247).
Close(c) ==
  /\ CanReceive(c)
  /\ LET userId == conns[c].userId
         workspaceId == conns[c].workspaceId
         \* no handler reads the closure variables of a closed socket again
         conns1 == [conns EXCEPT ![c] = [NoConn EXCEPT !.readyState = "CLOSED"]]
         cleanup == /\ closeRunsCleanup(conns[c])
                    /\ workspaceId \in DOMAIN workspaces
     IN /\ conns' = conns1
        /\ lastFrame' = [Inbound EXCEPT !.type = "close", !.ws = c,
                           !.userId = userId, !.workspaceId = workspaceId,
                           !.outcome = IF conns[c].skipCleanup THEN "skipped"
                                       ELSE IF cleanup THEN "cleanup" ELSE "none"]
        /\ IF ~cleanup
           THEN /\ sent' = << >>
                /\ UNCHANGED <<workspaces, workspaceLocks, workspaceCleanupTimers>>
           ELSE LET wss1 == [workspaces EXCEPT ![workspaceId] = OMapDelete(@, userId)]
                    hasLocks == workspaceId \in DOMAIN workspaceLocks
                    locks == IF hasLocks THEN workspaceLocks[workspaceId] ELSE << >>
                    released == SelectSeq(locks, LAMBDA e : e[2].lockedBy = userId)
                    unlocked ==
                      FlattenSeq([i \in 1..Len(released) |->
                        broadcastToWorkspace(conns1, wss1, workspaceId, userId,
                          [Frame EXCEPT !.type = "element_unlocked",
                                        !.elementId = released[i][1]])])
                    empty == Len(wss1[workspaceId]) = 0
                IN /\ workspaces' = wss1
                   /\ workspaceLocks' =
                        IF hasLocks
                        THEN [workspaceLocks EXCEPT ![workspaceId] =
                                SelectSeq(@, LAMBDA e : e[2].lockedBy # userId)]
                        ELSE workspaceLocks
                   /\ workspaceCleanupTimers' =
                        IF empty
                        THEN scheduleWorkspaceCleanup(workspaceCleanupTimers, workspaceId, now)
                        ELSE workspaceCleanupTimers
                   /\ sent' = unlocked \o
                        (IF empty THEN << >>
                         ELSE broadcastToWorkspace(conns1, wss1, workspaceId, userId,
                                [Frame EXCEPT !.type = "user_left", !.userId = userId]))
        /\ UNCHANGED <<wsClient, env, now, inflight, authFrames, workspaceSharedState, workspacePermissions,
                       consumedTicketIds, admittedTicketIds, lockGrants, published, entityFrames>>

\* ------------------------------------------------- stored entities, history
\* `existing?.field ?? default`: the undefined entity.
NoEntity ==
  [elementType |-> None, elementId |-> None, elementData |-> NoData,
   serializedJson |-> "", x |-> NoNum, version |-> 0, etag |-> NoEtag,
   firstEditedBy |-> None, firstEditedAt |-> 0, updatedBy |-> None, updatedAt |-> 0]

MapGet(m, k) == IF k \in DOMAIN m THEN m[k] ELSE NoEntity

\* Every stored entity of every workspace under <<workspace, kind, id>>, kind
\* being the first part of the entity's ETag key.
StoredEntities(shared) ==
  LET keys ==
        UNION {
          {<<w, k[1], k[2]>> : k \in DOMAIN shared[w].elements} \cup
          {<<w, "sprite-metrics", id>> : id \in DOMAIN shared[w].spriteMetrics} \cup
          {<<w, "workspace-snapshot", id>> : id \in DOMAIN shared[w].workspaceSnapshots}
          : w \in DOMAIN shared}
      get(e) ==
        IF e[2] = "sprite-metrics" THEN shared[e[1]].spriteMetrics[e[3]]
        ELSE IF e[2] = "workspace-snapshot" THEN shared[e[1]].workspaceSnapshots[e[3]]
        ELSE shared[e[1]].elements[<<e[2], e[3]>>]
  IN [e \in keys |-> get(e)]

\* The (entity, version) pairs a broadcast frame carries.
FrameVersions(workspaceId, msg) ==
  LET pair(kind, id, v) == IF v > 0 THEN {<<<<workspaceId, kind, id>>, v>>} ELSE {}
  IN CASE msg.type = "block_move" -> pair("block", msg.elementId, msg.version)
       [] msg.type = "sprite_update" -> pair("sprite-metrics", msg.elementId, msg.version)
       [] msg.type = "workspace_snapshot" ->
            pair("workspace-snapshot", msg.elementId, msg.version)
       [] msg.type = "element_created" ->
            pair(msg.elementType, msg.elementId, msg.version) \cup
            pair("sprite-metrics", msg.elementId, msg.spriteMetricsVersion)
       [] OTHER -> {}

BroadcastVersions(sentFrames, workspaceOf) ==
  UNION {FrameVersions(workspaceOf, sentFrames[i].msg) : i \in 1..Len(sentFrames)}

\* History of the versions put on the wire, per entity: `ever` is the last
\* version broadcast for it, `life` the last one broadcast since the entity
\* was last absent from the store (0: none).
PublishIn(pub, versions, shared) ==
  LET stored == DOMAIN StoredEntities(shared)
      keys == (DOMAIN pub) \cup {p[1] : p \in versions}
      old(e) == IF e \in DOMAIN pub THEN pub[e] ELSE [ever |-> 0, life |-> 0]
      new(e) == IF \E p \in versions : p[1] = e
                THEN (CHOOSE p \in versions : p[1] = e)[2] ELSE 0
  IN [e \in keys |->
        [ever |-> IF new(e) > 0 THEN new(e) ELSE old(e).ever,
         life |-> IF e \notin stored THEN 0
                  ELSE IF new(e) > 0 THEN new(e) ELSE old(e).life]]

Publish(pub, workspaceId, sentFrames, shared) ==
  PublishIn(pub, BroadcastVersions(sentFrames, workspaceId), shared)

\* The callback of the cleanup timer (server.ts 301-308) and
\* deleteWorkspaceState (291-297).  A timer never fires before it is due.
TimerFire(workspaceId) ==
  /\ workspaceId \in DOMAIN workspaceCleanupTimers
  /\ now >= workspaceCleanupTimers[workspaceId]
  /\ NoMicrotaskPending
  /\ lastFrame' = [Inbound EXCEPT !.type = "cleanup_timer", !.workspaceId = workspaceId]
  /\ sent' = << >>
  /\ workspaceCleanupTimers' =
       clearWorkspaceCleanupTimer(workspaceCleanupTimers, workspaceId)
  /\ IF workspaceId \in DOMAIN workspaces /\ Len(workspaces[workspaceId]) > 0
     THEN UNCHANGED <<workspaces, workspaceLocks, workspaceSharedState,
                      workspacePermissions, lockGrants>>
     ELSE /\ lockGrants' = [k \in {g \in DOMAIN lockGrants : g[1] # workspaceId} |->
                              lockGrants[k]]
          /\ workspaces' = MapDelete(workspaces, workspaceId)
          /\ workspaceLocks' = MapDelete(workspaceLocks, workspaceId)
          /\ workspaceSharedState' = MapDelete(workspaceSharedState, workspaceId)
          /\ workspacePermissions' = deleteWorkspace(workspacePermissions, workspaceId)
  /\ published' = Publish(published, workspaceId, << >>, workspaceSharedState')
  /\ UNCHANGED entityFrames
  /\ UNCHANGED <<wsClient, env, now, conns, inflight, authFrames, consumedTicketIds, admittedTicketIds>>

\* ------------------------------------------------------------------ locks
\* Frames of the switch statement return silently when the connection is
\* not authenticated (e.g. server.ts 693).
Authenticated(c) ==
  conns[c].isAuthenticated /\ conns[c].workspaceId # None /\ conns[c].userId # None

InboundOf(c, type) ==
  [Inbound EXCEPT !.type = type, !.ws = c, !.userId = conns[c].userId,
                  !.workspaceId = conns[c].workspaceId]

\* Mutant: every element type is checked against canEditBlocks.
LockPermKey_BlocksOnly(elementType) == "canEditBlocks"

LockPermKey(elementType) ==
  CASE elementType = "sprite" -> "canEditSprites"
    [] elementType = "variable" -> "canEditVariables"
    [] OTHER -> "canEditBlocks"

\* Mutant: the holder is not compared with the requester.
lockedByOther_Unchecked(locks, elementId, userId) == FALSE

\* Mutant: a held lock is refused to every requester, its holder included.
lockedByOther_AnyHolder(locks, elementId, userId) == OMapHas(locks, elementId)

\* existing?.lockedBy && existing.lockedBy !== userId (server.ts 714-715).
lockedByOther(locks, elementId, userId) ==
  OMapHas(locks, elementId) /\ OMapGet(locks, elementId).lockedBy # userId

\* case 'request_lock' (server.ts 692-731).
RequestLock(c, elementId, elementType) ==
  /\ CanReceive(c)
  /\ LET userId == conns[c].userId
         workspaceId == conns[c].workspaceId
         in == [InboundOf(c, "request_lock") EXCEPT !.elementId = elementId,
                                                     !.elementType = elementType]
     IN IF ~Authenticated(c) \/ workspaceId \notin DOMAIN workspaceLocks
           \/ elementId = ""
        THEN /\ sent' = << >>
             /\ lastFrame' = [in EXCEPT !.outcome = "ignored"]
             /\ UNCHANGED <<workspaceLocks, lockGrants>>
        ELSE IF ~hasPermission(workspacePermissions, workspaceId, userId,
                               LockPermKey(elementType))
        THEN /\ sent' = <<Send(c, [Frame EXCEPT !.type = "lock_denied",
                                     !.elementId = elementId, !.lockedBy = Null,
                                     !.reason = "forbidden"])>>
             /\ lastFrame' = [in EXCEPT !.outcome = "forbidden"]
             /\ UNCHANGED <<workspaceLocks, lockGrants>>
        ELSE LET locks == workspaceLocks[workspaceId]
                 held == OMapHas(locks, elementId)
                 existing == OMapGet(locks, elementId)
             IN IF lockedByOther(locks, elementId, userId)
                THEN /\ sent' = <<Send(c, [Frame EXCEPT !.type = "lock_denied",
                                             !.elementId = elementId,
                                             !.lockedBy = existing.lockedBy])>>
                     /\ lastFrame' = [in EXCEPT !.outcome = "denied"]
                     /\ UNCHANGED <<workspaceLocks, lockGrants>>
                ELSE LET version == (IF held THEN existing.version ELSE 0) + 1
                     IN /\ version <= MaxVersion
                        /\ workspaceLocks' =
                             [workspaceLocks EXCEPT ![workspaceId] =
                                OMapSet(@, elementId,
                                        [lockedBy |-> userId, version |-> version])]
                        /\ sent' =
                             <<Send(c, [Frame EXCEPT !.type = "lock_granted",
                                          !.elementId = elementId,
                                          !.version = version])>> \o
                             broadcastToWorkspace(conns, workspaces, workspaceId, userId,
                               [Frame EXCEPT !.type = "element_locked",
                                  !.elementId = elementId, !.lockedBy = userId,
                                  !.version = version])
                        /\ lastFrame' = [in EXCEPT !.outcome = "granted"]
                        /\ lockGrants' = MapSet(lockGrants, <<workspaceId, elementId>>, version)
  /\ UNCHANGED <<wsClient, env, now, conns, inflight, authFrames, workspaces, workspaceCleanupTimers,
                 workspaceSharedState, workspacePermissions, consumedTicketIds,
                 admittedTicketIds, published, entityFrames>>

\* case 'release_lock' (server.ts 733-757).
ReleaseLock(c, elementId) ==
  /\ CanReceive(c)
  /\ LET userId == conns[c].userId
         workspaceId == conns[c].workspaceId
         in == [InboundOf(c, "release_lock") EXCEPT !.elementId = elementId]
         ok == /\ Authenticated(c)
               /\ workspaceId \in DOMAIN workspaceLocks
               /\ elementId # ""
               /\ OMapHas(workspaceLocks[workspaceId], elementId)
               /\ OMapGet(workspaceLocks[workspaceId], elementId).lockedBy = userId
     IN IF ok
        THEN /\ workspaceLocks' = [workspaceLocks EXCEPT ![workspaceId] =
                                     OMapDelete(@, elementId)]
             /\ sent' = broadcastToWorkspace(conns, workspaces, workspaceId, userId,
                          [Frame EXCEPT !.type = "element_unlocked",
                                        !.elementId = elementId])
             /\ lastFrame' = [in EXCEPT !.outcome = "released"]
        ELSE /\ sent' = << >>
             /\ lastFrame' = [in EXCEPT !.outcome = "ignored"]
             /\ UNCHANGED workspaceLocks
  /\ UNCHANGED <<wsClient, env, now, conns, inflight, authFrames, workspaces, workspaceCleanupTimers,
                 workspaceSharedState, workspacePermissions, consumedTicketIds,
                 admittedTicketIds, lockGrants, published, entityFrames>>

\* ------------------------------------------------------------ permissions
\* u.permissions = getUserPermissions(...) for the listed members.
\* Mutant: no member's field is reassigned.
RefreshPermissions_Skip(members, wp, workspaceId, userIds) == members

RefreshPermissions(members, wp, workspaceId, userIds) ==
  [i \in 1..Len(members) |->
     IF members[i][1] \in userIds
     THEN <<members[i][1],
            [members[i][2] EXCEPT !.permissions =
               getUserPermissionsRef(wp, workspaceId, members[i][1])]>>
     ELSE members[i]]

PermissionsUpdated(p, source, mode) ==
  [Frame EXCEPT !.type = "permissions_updated", !.permissions = p,
                !.source = source, !.mode = mode]

UserUpdated(wp, workspaceId, u) ==
  [Frame EXCEPT !.type = "user_updated", !.userId = u.id,
                !.permissions = ClientPermissions(wp, workspaceId, u),
                !.role = u.role]

\* The loop body of server.ts 601-617 for the i-th member.
GlobalUpdateSends(cs, wss, wp, workspaceId, i) ==
  LET u == wss[workspaceId][i][2]
  IN (IF cs[u.ws].readyState = "OPEN"
      THEN <<Send(u.ws, PermissionsUpdated(ClientPermissions(wp, workspaceId, u),
                                           "global_update", None))>>
      ELSE << >>) \o
     broadcastToWorkspace(cs, wss, workspaceId, Null, UserUpdated(wp, workspaceId, u))

\* case 'update_global_permission' (server.ts 587-620).
UpdateGlobalPermission(c, permission, value) ==
  /\ CanReceive(c)
  /\ LET userId == conns[c].userId
         workspaceId == conns[c].workspaceId
         in == [InboundOf(c, "update_global_permission") EXCEPT
                  !.permission = permission, !.value = value]
     IN IF ~Authenticated(c)
           \/ ~hasPermission(workspacePermissions, workspaceId, userId,
                             "canChangePermissions")
        THEN /\ sent' = << >>
             /\ lastFrame' = [in EXCEPT !.outcome = "ignored"]
             /\ UNCHANGED <<workspaces, workspacePermissions>>
        ELSE LET wp1 == updateGlobalPermission(workspacePermissions, workspaceId,
                                               permission, value)
                 has == workspaceId \in DOMAIN workspaces
                 wss1 == IF has
                         THEN [workspaces EXCEPT ![workspaceId] =
                                 RefreshPermissions(@, wp1, workspaceId, OMapKeys(@))]
                         ELSE workspaces
             IN /\ workspacePermissions' = wp1
                /\ workspaces' = wss1
                /\ sent' = IF has
                           THEN FlattenSeq([i \in 1..Len(wss1[workspaceId]) |->
                                  GlobalUpdateSends(conns, wss1, wp1, workspaceId, i)])
                           ELSE << >>
                /\ lastFrame' = [in EXCEPT !.outcome = "applied"]
  /\ UNCHANGED <<wsClient, env, now, conns, inflight, authFrames, workspaceLocks,
                 workspaceCleanupTimers, workspaceSharedState,
                 consumedTicketIds, admittedTicketIds, lockGrants, published, entityFrames>>

\* case 'update_user_permission' (server.ts 622-657).
UpdateUserPermission(c, targetUserId, permission, value) ==
  /\ CanReceive(c)
  /\ LET userId == conns[c].userId
         workspaceId == conns[c].workspaceId
         in == [InboundOf(c, "update_user_permission") EXCEPT
                  !.permission = permission, !.value = value,
                  !.targetUserId = targetUserId]
     IN IF ~Authenticated(c)
           \/ ~hasPermission(workspacePermissions, workspaceId, userId,
                             "canChangePermissions")
           \/ targetUserId = ""
        THEN /\ sent' = << >>
             /\ lastFrame' = [in EXCEPT !.outcome = "ignored"]
             /\ UNCHANGED <<workspaces, workspacePermissions>>
        ELSE LET wp1 == updateUserPermission(workspacePermissions, workspaceId,
                                             targetUserId, permission, value)
                 has == /\ workspaceId \in DOMAIN workspaces
                        /\ OMapHas(workspaces[workspaceId], targetUserId)
                 wss1 == IF has
                         THEN [workspaces EXCEPT ![workspaceId] =
                                 RefreshPermissions(@, wp1, workspaceId, {targetUserId})]
                         ELSE workspaces
                 targetClient == OMapGet(wss1[workspaceId], targetUserId)
             IN /\ workspacePermissions' = wp1
                /\ workspaces' = wss1
                /\ sent' =
                     IF has
                     THEN (IF conns[targetClient.ws].readyState = "OPEN"
                           THEN <<Send(targetClient.ws,
                                       PermissionsUpdated(
                                         ClientPermissions(wp1, workspaceId, targetClient),
                                         "user_update", None))>>
                           ELSE << >>) \o
                          broadcastToWorkspace(conns, wss1, workspaceId, Null,
                                               UserUpdated(wp1, workspaceId, targetClient))
                     ELSE << >>
                /\ lastFrame' = [in EXCEPT !.outcome = "applied"]
  /\ UNCHANGED <<wsClient, env, now, conns, inflight, authFrames, workspaceLocks,
                 workspaceCleanupTimers, workspaceSharedState,
                 consumedTicketIds, admittedTicketIds, lockGrants, published, entityFrames>>

\* The loop body of server.ts 674-687 for the i-th member.
PresetUpdateSends(cs, wss, wp, workspaceId, mode, i) ==
  LET u == wss[workspaceId][i][2]
  IN IF cs[u.ws].readyState = "OPEN"
     THEN <<Send(u.ws, PermissionsUpdated(ClientPermissions(wp, workspaceId, u),
                                          "preset_update", mode))>>
     ELSE << >>

\* case 'apply_preset_mode' (server.ts 659-690).
ApplyPresetMode(c, mode) ==
  /\ CanReceive(c)
  /\ LET userId == conns[c].userId
         workspaceId == conns[c].workspaceId
         in == [InboundOf(c, "apply_preset_mode") EXCEPT !.mode = mode]
     IN IF ~Authenticated(c)
           \/ ~hasPermission(workspacePermissions, workspaceId, userId,
                             "canChangePermissions")
        THEN /\ sent' = << >>
             /\ lastFrame' = [in EXCEPT !.outcome = "ignored"]
             /\ UNCHANGED <<workspaces, workspacePermissions>>
        ELSE LET wp1 == applyPresetMode(workspacePermissions, workspaceId, mode)
                 has == workspaceId \in DOMAIN workspaces
                 \* every member is reassigned, so no field keeps the old global
                 wss1 == IF has
                         THEN [workspaces EXCEPT ![workspaceId] =
                                 RefreshPermissions(@, wp1, workspaceId, OMapKeys(@))]
                         ELSE workspaces
             IN /\ workspacePermissions' = wp1
                /\ workspaces' = wss1
                /\ sent' = IF has
                           THEN FlattenSeq([i \in 1..Len(wss1[workspaceId]) |->
                                  PresetUpdateSends(conns, wss1, wp1, workspaceId, mode, i)])
                           ELSE << >>
                /\ lastFrame' = [in EXCEPT !.outcome = "applied"]
  /\ UNCHANGED <<wsClient, env, now, conns, inflight, authFrames, workspaceLocks,
                 workspaceCleanupTimers, workspaceSharedState,
                 consumedTicketIds, admittedTicketIds, lockGrants, published, entityFrames>>

\* case 'request_teacher_role' (server.ts 517-552).
RequestTeacherRole(c) ==
  /\ CanReceive(c)
  /\ LET userId == conns[c].userId
         workspaceId == conns[c].workspaceId
         in == InboundOf(c, "request_teacher_role")
         isMember == /\ Authenticated(c)
                     /\ workspaceId \in DOMAIN workspaces
                     /\ OMapHas(workspaces[workspaceId], userId)
         currentClient == OMapGet(workspaces[workspaceId], userId)
     IN IF ~isMember
        THEN /\ sent' = << >>
             /\ lastFrame' = [in EXCEPT !.outcome = "ignored"]
             /\ UNCHANGED <<workspaces, workspacePermissions>>
        ELSE IF currentClient.role \notin {"ADMIN", "TEACHER"}
        THEN /\ sent' = <<Send(c, ErrorFrame("Role escalation denied"))>>
             /\ lastFrame' = [in EXCEPT !.outcome = "denied"]
             /\ UNCHANGED <<workspaces, workspacePermissions>>
        ELSE LET wp1 == IF currentClient.role = "ADMIN"
                        THEN setUserAsAdmin(workspacePermissions, workspaceId, userId)
                        ELSE setUserAsTeacher(workspacePermissions, workspaceId, userId)
                 \* the member's field is reassigned to the new per-user object
                 wss1 == [workspaces EXCEPT ![workspaceId] =
                            RefreshPermissions(@, wp1, workspaceId, {userId})]
                 updatedPerms == getUserPermissions(wp1, workspaceId, userId)
             IN /\ workspacePermissions' = wp1
                /\ workspaces' = wss1
                /\ sent' = <<Send(c, PermissionsUpdated(updatedPerms, "role_change", None))>> \o
                           broadcastToWorkspace(conns, wss1, workspaceId, userId,
                             [Frame EXCEPT !.type = "user_updated", !.userId = userId,
                                !.permissions = updatedPerms, !.role = currentClient.role])
                /\ lastFrame' = [in EXCEPT !.outcome = "applied"]
  /\ UNCHANGED <<wsClient, env, now, conns, inflight, authFrames, workspaceLocks,
                 workspaceCleanupTimers, workspaceSharedState,
                 consumedTicketIds, admittedTicketIds, lockGrants, published, entityFrames>>

\* ---------------------------------------------------------------- entities
ifMatchSatisfied(submittedIfMatch, currentEtag) ==
  \/ submittedIfMatch = NoEtag
  \/ submittedIfMatch = Star
  \/ submittedIfMatch = currentEtag

\* Mutant: the submitted ETag is not compared.
ifMatchSatisfiedAny_Always(submittedIfMatch, currentEtags) == TRUE

ifMatchSatisfiedAny(submittedIfMatch, currentEtags) ==
  \/ submittedIfMatch = NoEtag
  \/ submittedIfMatch = Star
  \/ \E i \in 1..Len(currentEtags) : currentEtags[i] = submittedIfMatch

\* Mutant: a write keeps the version of the entity it replaces.
NextVersion_Stuck(version) == IF version = 0 THEN 1 ELSE version

\* (existing?.version ?? 0) + 1
NextVersion(version) == version + 1

\* Mutant: the right operand is taken even when the left one is defined.
Coalesce_Right(a, b, undefined) == b

\* a ?? b on entity fields (None / 0 / NoEtag stand for undefined).
Coalesce(a, b, undefined) == IF a # undefined THEN a ELSE b

ConflictFrame(entityType, entityId, ifMatch, currentEtag, firstEditedBy, firstEditedAt) ==
  [Frame EXCEPT !.type = "conflict", !.reason = "etag_mismatch",
                !.elementType = entityType, !.elementId = entityId,
                !.ifMatch = ifMatch, !.etag = currentEtag,
                !.firstEditedBy = firstEditedBy, !.firstEditedAt = firstEditedAt]

resolveElementIdFromPayload(elementType, elementData, fallbackId) ==
  IF fallbackId # "" THEN fallbackId
  ELSE IF ~isRecord(elementData) THEN ""
  ELSE elementData.id

\* Mutant: the writer recorded is the first editor.
ElementState_FirstEditor(elementType, elementId, elementData, version, firstEditedBy, firstEditedAt, updatedBy, updatedAt) ==
  [elementType |-> elementType, elementId |-> elementId, elementData |-> elementData,
   version |-> version, etag |-> buildEntityEtag(<<elementType, elementId>>, version),
   firstEditedBy |-> firstEditedBy, firstEditedAt |-> firstEditedAt,
   updatedBy |-> firstEditedBy, updatedAt |-> updatedAt]

ElementState(elementType, elementId, elementData, version, firstEditedBy, firstEditedAt, updatedBy, updatedAt) ==
  [elementType |-> elementType, elementId |-> elementId, elementData |-> elementData,
   version |-> version, etag |-> buildEntityEtag(<<elementType, elementId>>, version),
   firstEditedBy |-> firstEditedBy, firstEditedAt |-> firstEditedAt,
   updatedBy |-> updatedBy, updatedAt |-> updatedAt]

SpriteMetrics(spriteId, x, version, firstEditedBy, firstEditedAt, updatedBy, updatedAt) ==
  [spriteId |-> spriteId, x |-> x, version |-> version,
   etag |-> buildEntityEtag(<<"sprite-metrics", spriteId>>, version),
   firstEditedBy |-> firstEditedBy, firstEditedAt |-> firstEditedAt,
   updatedBy |-> updatedBy, updatedAt |-> updatedAt]

SnapshotState(spriteId, serializedJson, version, firstEditedBy, firstEditedAt, updatedBy, updatedAt) ==
  [spriteId |-> spriteId, serializedJson |-> serializedJson, version |-> version,
   etag |-> buildEntityEtag(<<"workspace-snapshot", spriteId>>, version),
   firstEditedBy |-> firstEditedBy, firstEditedAt |-> firstEditedAt,
   updatedBy |-> updatedBy, updatedAt |-> updatedAt]

\* if (!isAuthenticated || !workspaceId || !userId) (server.ts 762-765).
NotAuthenticated(c, in) ==
  /\ sent' = <<Send(c, ErrorFrame("Not authenticated"))>>
  /\ lastFrame' = [in EXCEPT !.outcome = "unauthenticated"]
  /\ UNCHANGED <<workspaceSharedState, published>>

\* A handler that returns without a frame and without a write.
Dropped(in, outcome) ==
  /\ sent' = << >>
  /\ lastFrame' = [in EXCEPT !.outcome = outcome]
  /\ UNCHANGED <<workspaceSharedState, published>>

\* sendEtagConflict and return; ensureWorkspaceSharedState has run.
Conflicted(c, in, workspaceId, frame) ==
  /\ sent' = <<Send(c, frame)>>
  /\ lastFrame' = [in EXCEPT !.outcome = "conflict"]
  /\ workspaceSharedState' = ensureWorkspaceSharedState(workspaceSharedState, workspaceId)
  /\ UNCHANGED published

\* The write of a handler and its broadcast.
Applied(in, workspaceId, shared, frames) ==
  /\ sent' = frames
  /\ lastFrame' = [in EXCEPT !.outcome = "applied"]
  /\ workspaceSharedState' = shared
  /\ published' = Publish(published, workspaceId, frames, shared)

LocksOf(workspaceId) ==
  IF workspaceId \in DOMAIN workspaceLocks THEN workspaceLocks[workspaceId] ELSE << >>

\* if (type === 'block_move') (server.ts 799-864).
BlockMove(c, blockId, position, ifMatch) ==
  /\ CanReceive(c)
  /\ entityFrames < MaxEntityFrames
  /\ entityFrames' = entityFrames + 1
  /\ LET userId == conns[c].userId
         workspaceId == conns[c].workspaceId
         in == [InboundOf(c, "block_move") EXCEPT !.elementId = blockId,
                  !.elementType = "block", !.ifMatch = ifMatch]
     IN IF ~Authenticated(c) THEN NotAuthenticated(c, in)
        ELSE IF ~hasPermission(workspacePermissions, workspaceId, userId, "canEditBlocks")
        THEN Dropped(in, "forbidden")
        ELSE IF lockedByOther(LocksOf(workspaceId), blockId, userId)
        THEN Dropped(in, "locked")
        ELSE IF blockId = ""
        THEN /\ sent' = broadcastToWorkspace(conns, workspaces, workspaceId, userId,
                          [Frame EXCEPT !.type = "block_move", !.userId = userId,
                             !.elementId = blockId,
                             !.data = RecordData(blockId, Undefined, position)])
             /\ lastFrame' = [in EXCEPT !.outcome = "relayed"]
             /\ UNCHANGED <<workspaceSharedState, published>>
        ELSE LET shared0 == ensureWorkspaceSharedState(workspaceSharedState, workspaceId)
                 state == shared0[workspaceId]
                 elementKey == <<"block", blockId>>
                 existingElement == MapGet(state.elements, elementKey)
             IN IF ~ifMatchSatisfied(ifMatch, existingElement.etag)
                THEN Conflicted(c, in, workspaceId,
                       ConflictFrame("block", blockId, ifMatch, existingElement.etag,
                                     existingElement.firstEditedBy,
                                     existingElement.firstEditedAt))
                ELSE LET version == NextVersion(existingElement.version)
                         blockState ==
                           ElementState("block", blockId,
                             RecordData(blockId, Undefined, position), version,
                             Coalesce(existingElement.firstEditedBy, userId, None),
                             Coalesce(existingElement.firstEditedAt, now, 0),
                             userId, now)
                         shared1 == [shared0 EXCEPT ![workspaceId].elements =
                                       MapSet(@, elementKey, blockState)]
                     IN /\ version <= MaxVersion
                        /\ Applied(in, workspaceId, shared1,
                             broadcastToWorkspace(conns, workspaces, workspaceId, userId,
                               [Frame EXCEPT !.type = "block_move", !.userId = userId,
                                  !.elementId = blockId,
                                  !.data = blockState.elementData,
                                  !.etag = blockState.etag,
                                  !.version = blockState.version,
                                  !.firstEditedBy = blockState.firstEditedBy,
                                  !.firstEditedAt = blockState.firstEditedAt]))
  /\ UNCHANGED <<wsClient, env, now, conns, inflight, authFrames, workspaces, workspaceLocks,
                 workspaceCleanupTimers, workspacePermissions, consumedTicketIds,
                 admittedTicketIds, lockGrants>>

Max(a, b) == IF a >= b THEN a ELSE b

\* if (type === 'sprite_update') (server.ts 877-1000).
SpriteUpdate(c, spriteId, xIn, ifMatch) ==
  /\ CanReceive(c)
  /\ entityFrames < MaxEntityFrames
  /\ entityFrames' = entityFrames + 1
  /\ LET userId == conns[c].userId
         workspaceId == conns[c].workspaceId
         in == [InboundOf(c, "sprite_update") EXCEPT !.elementId = spriteId,
                  !.elementType = "sprite", !.ifMatch = ifMatch]
         x == normalizeFiniteNumber(xIn)
     IN IF ~Authenticated(c) THEN NotAuthenticated(c, in)
        ELSE IF lockedByOther(LocksOf(workspaceId), spriteId, userId)
        THEN Dropped(in, "locked")
        ELSE IF spriteId = ""
        THEN /\ sent' = broadcastToWorkspace(conns, workspaces, workspaceId, userId,
                          [Frame EXCEPT !.type = "sprite_update", !.userId = userId,
                             !.elementId = spriteId,
                             !.data = RecordData(spriteId, xIn, Undefined)])
             /\ lastFrame' = [in EXCEPT !.outcome = "relayed"]
             /\ UNCHANGED <<workspaceSharedState, published>>
        ELSE LET shared0 == ensureWorkspaceSharedState(workspaceSharedState, workspaceId)
                 state == shared0[workspaceId]
                 previousMetrics == MapGet(state.spriteMetrics, spriteId)
                 existingSpriteElement == MapGet(state.elements, <<"sprite", spriteId>>)
                 comparableEtag == Coalesce(previousMetrics.etag,
                                            existingSpriteElement.etag, NoEtag)
             IN IF ~ifMatchSatisfiedAny(ifMatch, <<previousMetrics.etag,
                                                   existingSpriteElement.etag>>)
                THEN Conflicted(c, in, workspaceId,
                       ConflictFrame("sprite", spriteId, ifMatch, comparableEtag,
                         Coalesce(previousMetrics.firstEditedBy,
                                  existingSpriteElement.firstEditedBy, None),
                         Coalesce(previousMetrics.firstEditedAt,
                                  existingSpriteElement.firstEditedAt, 0)))
                ELSE LET baseVersion == Max(previousMetrics.version,
                                            existingSpriteElement.version)
                         version == NextVersion(baseVersion)
                         nextMetrics ==
                           SpriteMetrics(spriteId,
                             Coalesce(x, Coalesce(previousMetrics.x, 0, NoNum), NoNum),
                             version,
                             Coalesce(previousMetrics.firstEditedBy,
                               Coalesce(existingSpriteElement.firstEditedBy, userId, None),
                               None),
                             Coalesce(previousMetrics.firstEditedAt,
                               Coalesce(existingSpriteElement.firstEditedAt, now, 0), 0),
                             userId, now)
                         shared1 == [shared0 EXCEPT ![workspaceId].spriteMetrics =
                                       MapSet(@, spriteId, nextMetrics)]
                         existingSprite == existingSpriteElement
                         elementVersion == NextVersion(existingSprite.version)
                         nextSpriteData ==
                           [existingSprite.elementData EXCEPT
                              !.x = IF x # NoNum THEN xIn ELSE @]
                         shared2 ==
                           IF <<"sprite", spriteId>> \in DOMAIN state.elements
                              /\ isRecord(existingSprite.elementData)
                           THEN [shared1 EXCEPT ![workspaceId].elements =
                                   MapSet(@, <<"sprite", spriteId>>,
                                     ElementState(existingSprite.elementType,
                                       existingSprite.elementId, nextSpriteData,
                                       elementVersion,
                                       Coalesce(existingSprite.firstEditedBy, userId, None),
                                       Coalesce(existingSprite.firstEditedAt, now, 0),
                                       userId, now))]
                           ELSE shared1
                     IN /\ version <= MaxVersion
                        /\ Applied(in, workspaceId, shared2,
                             broadcastToWorkspace(conns, workspaces, workspaceId, userId,
                               [Frame EXCEPT !.type = "sprite_update", !.userId = userId,
                                  !.elementId = spriteId,
                                  !.data = RecordData(spriteId, xIn, Undefined),
                                  !.etag = nextMetrics.etag,
                                  !.version = nextMetrics.version,
                                  !.firstEditedBy = nextMetrics.firstEditedBy,
                                  !.firstEditedAt = nextMetrics.firstEditedAt]))
  /\ UNCHANGED <<wsClient, env, now, conns, inflight, authFrames, workspaces, workspaceLocks,
                 workspaceCleanupTimers, workspacePermissions, consumedTicketIds,
                 admittedTicketIds, lockGrants>>

\* if (type === 'create_element') (server.ts 1020-1103).
CreateElement(c, elementType, elementData, fallbackId, ifMatch) ==
  /\ CanReceive(c)
  /\ entityFrames < MaxEntityFrames
  /\ entityFrames' = entityFrames + 1
  /\ LET userId == conns[c].userId
         workspaceId == conns[c].workspaceId
         elementId == resolveElementIdFromPayload(elementType, elementData, fallbackId)
         in == [InboundOf(c, "create_element") EXCEPT !.elementId = elementId,
                  !.elementType = elementType, !.ifMatch = ifMatch]
     IN IF ~Authenticated(c) THEN NotAuthenticated(c, in)
        ELSE IF elementType = "" \/ elementId = ""
        THEN /\ sent' = broadcastToWorkspace(conns, workspaces, workspaceId, userId,
                          [Frame EXCEPT !.type = "element_created", !.userId = userId,
                             !.elementType = elementType, !.elementId = elementId,
                             !.data = elementData])
             /\ lastFrame' = [in EXCEPT !.outcome = "relayed"]
             /\ UNCHANGED <<workspaceSharedState, published>>
        ELSE LET shared0 == ensureWorkspaceSharedState(workspaceSharedState, workspaceId)
                 state == shared0[workspaceId]
                 elementKey == <<elementType, elementId>>
                 existingElement == MapGet(state.elements, elementKey)
             IN IF ~ifMatchSatisfied(ifMatch, existingElement.etag)
                THEN Conflicted(c, in, workspaceId,
                       ConflictFrame(elementType, elementId, ifMatch, existingElement.etag,
                                     existingElement.firstEditedBy,
                                     existingElement.firstEditedAt))
                ELSE LET version == NextVersion(existingElement.version)
                         elementState ==
                           ElementState(elementType, elementId, elementData, version,
                             Coalesce(existingElement.firstEditedBy, userId, None),
                             Coalesce(existingElement.firstEditedAt, now, 0),
                             userId, now)
                         shared1 == [shared0 EXCEPT ![workspaceId].elements =
                                       MapSet(@, elementKey, elementState)]
                         withMetrics == elementType = "sprite" /\ isRecord(elementData)
                         existingMetrics == MapGet(state.spriteMetrics, elementId)
                         metricsVersion == NextVersion(existingMetrics.version)
                         spriteMetricState ==
                           SpriteMetrics(elementId,
                             Coalesce(normalizeFiniteNumber(elementData.x), 0, NoNum),
                             metricsVersion,
                             Coalesce(existingMetrics.firstEditedBy, userId, None),
                             Coalesce(existingMetrics.firstEditedAt, now, 0),
                             userId, now)
                         shared2 ==
                           IF withMetrics
                           THEN [shared1 EXCEPT ![workspaceId].spriteMetrics =
                                   MapSet(@, elementId, spriteMetricState)]
                           ELSE shared1
                     IN /\ version <= MaxVersion
                        /\ withMetrics => metricsVersion <= MaxVersion
                        /\ Applied(in, workspaceId, shared2,
                             broadcastToWorkspace(conns, workspaces, workspaceId, userId,
                               [Frame EXCEPT !.type = "element_created", !.userId = userId,
                                  !.elementType = elementType, !.elementId = elementId,
                                  !.data = elementData,
                                  !.etag = elementState.etag,
                                  !.version = elementState.version,
                                  !.firstEditedBy = elementState.firstEditedBy,
                                  !.firstEditedAt = elementState.firstEditedAt,
                                  !.spriteMetricsVersion =
                                     IF withMetrics THEN spriteMetricState.version ELSE 0]))
  /\ UNCHANGED <<wsClient, env, now, conns, inflight, authFrames, workspaces, workspaceLocks,
                 workspaceCleanupTimers, workspacePermissions, consumedTicketIds,
                 admittedTicketIds, lockGrants>>

\* if (type === 'delete_element') (server.ts 1105-1150).
DeleteElement(c, elementType, elementData, fallbackId, ifMatch) ==
  /\ CanReceive(c)
  /\ entityFrames < MaxEntityFrames
  /\ entityFrames' = entityFrames + 1
  /\ LET userId == conns[c].userId
         workspaceId == conns[c].workspaceId
         elementId == resolveElementIdFromPayload(elementType, elementData, fallbackId)
         in == [InboundOf(c, "delete_element") EXCEPT !.elementId = elementId,
                  !.elementType = elementType, !.ifMatch = ifMatch]
     IN IF ~Authenticated(c) THEN NotAuthenticated(c, in)
        ELSE IF elementType = "" \/ elementId = ""
        THEN /\ sent' = broadcastToWorkspace(conns, workspaces, workspaceId, userId,
                          [Frame EXCEPT !.type = "element_deleted", !.userId = userId,
                             !.elementType = elementType, !.elementId = elementId])
             /\ lastFrame' = [in EXCEPT !.outcome = "relayed"]
             /\ UNCHANGED <<workspaceSharedState, published>>
        ELSE LET shared0 == ensureWorkspaceSharedState(workspaceSharedState, workspaceId)
                 state == shared0[workspaceId]
                 elementKey == <<elementType, elementId>>
                 existingElement == MapGet(state.elements, elementKey)
                 existingSpriteMetrics ==
                   IF elementType = "sprite" THEN MapGet(state.spriteMetrics, elementId)
                   ELSE NoEntity
                 comparableEtag == Coalesce(existingElement.etag,
                                            existingSpriteMetrics.etag, NoEtag)
             IN IF ~ifMatchSatisfiedAny(ifMatch, <<existingElement.etag,
                                                   existingSpriteMetrics.etag>>)
                THEN Conflicted(c, in, workspaceId,
                       ConflictFrame(elementType, elementId, ifMatch, comparableEtag,
                                     existingElement.firstEditedBy,
                                     existingElement.firstEditedAt))
                ELSE LET shared1 == [shared0 EXCEPT ![workspaceId].elements =
                                       MapDelete(@, elementKey)]
                         shared2 ==
                           IF elementType = "sprite"
                           THEN [shared1 EXCEPT
                                   ![workspaceId].spriteMetrics = MapDelete(@, elementId),
                                   ![workspaceId].workspaceSnapshots = MapDelete(@, elementId)]
                           ELSE shared1
                     IN Applied(in, workspaceId, shared2,
                          broadcastToWorkspace(conns, workspaces, workspaceId, userId,
                            [Frame EXCEPT !.type = "element_deleted", !.userId = userId,
                               !.elementType = elementType, !.elementId = elementId,
                               !.etag = existingElement.etag,
                               !.firstEditedBy = existingElement.firstEditedBy,
                               !.firstEditedAt = existingElement.firstEditedAt]))
  /\ UNCHANGED <<wsClient, env, now, conns, inflight, authFrames, workspaces, workspaceLocks,
                 workspaceCleanupTimers, workspacePermissions, consumedTicketIds,
                 admittedTicketIds, lockGrants>>

\* serializedJson.length of the payloads of the model.
MAX_SNAPSHOT_LENGTH == 2000000
JsonLength(serializedJson) ==
  CASE serializedJson = "" -> 0
    [] serializedJson = "huge" -> MAX_SNAPSHOT_LENGTH + 1
    [] OTHER -> 2

\* if (type === 'workspace_snapshot') (server.ts 1152-1208).
WorkspaceSnapshot(c, spriteId, serializedJson, ifMatch) ==
  /\ CanReceive(c)
  /\ entityFrames < MaxEntityFrames
  /\ entityFrames' = entityFrames + 1
  /\ LET userId == conns[c].userId
         workspaceId == conns[c].workspaceId
         in == [InboundOf(c, "workspace_snapshot") EXCEPT !.elementId = spriteId,
                  !.elementType = "workspace-snapshot",
                  !.ifMatch = ifMatch]
     IN IF ~Authenticated(c) THEN NotAuthenticated(c, in)
        ELSE IF spriteId = "" \/ serializedJson = ""
        THEN Dropped(in, "ignored")
        ELSE IF JsonLength(serializedJson) > MAX_SNAPSHOT_LENGTH
        THEN /\ sent' = <<Send(c, ErrorFrame("Workspace snapshot too large"))>>
             /\ lastFrame' = [in EXCEPT !.outcome = "too_large"]
             /\ UNCHANGED <<workspaceSharedState, published>>
        ELSE IF ~hasPermission(workspacePermissions, workspaceId, userId, "canEditBlocks")
        THEN Dropped(in, "forbidden")
        ELSE LET shared0 == ensureWorkspaceSharedState(workspaceSharedState, workspaceId)
                 state == shared0[workspaceId]
                 existingSnapshot == MapGet(state.workspaceSnapshots, spriteId)
             IN IF ~ifMatchSatisfied(ifMatch, existingSnapshot.etag)
                THEN Conflicted(c, in, workspaceId,
                       ConflictFrame("workspace_snapshot", spriteId, ifMatch,
                                     existingSnapshot.etag,
                                     existingSnapshot.firstEditedBy,
                                     existingSnapshot.firstEditedAt))
                ELSE LET version == NextVersion(existingSnapshot.version)
                         snapshot ==
                           SnapshotState(spriteId, serializedJson, version,
                             Coalesce(existingSnapshot.firstEditedBy, userId, None),
                             Coalesce(existingSnapshot.firstEditedAt, now, 0),
                             userId, now)
                         shared1 == [shared0 EXCEPT ![workspaceId].workspaceSnapshots =
                                       MapSet(@, spriteId, snapshot)]
                     IN /\ version <= MaxVersion
                        /\ Applied(in, workspaceId, shared1,
                             broadcastToWorkspace(conns, workspaces, workspaceId, userId,
                               [Frame EXCEPT !.type = "workspace_snapshot",
                                  !.userId = userId, !.elementId = spriteId,
                                  !.etag = snapshot.etag, !.version = snapshot.version,
                                  !.firstEditedBy = snapshot.firstEditedBy,
                                  !.firstEditedAt = snapshot.firstEditedAt]))
  /\ UNCHANGED <<wsClient, env, now, conns, inflight, authFrames, workspaces, workspaceLocks,
                 workspaceCleanupTimers, workspacePermissions, consumedTicketIds,
                 admittedTicketIds, lockGrants>>

\* =========================================================================
\* SpecLock: admission, take-over, close and the lock table, within one
\* second (time and the cleanup timer are exercised by SpecTicket).
LockConns == {"c1", "c2", "c3"}

LockTickets ==
  {Ticket("u1", "w", "j1", 9, "TEACHER", "ok"),
   Ticket("u2", "w", "j2", 9, "ADMIN", "ok"),
   Ticket("u1", "w", "j3", 9, "STUDENT", "ok")}

LockElements == {"b1"}

NextLock ==
  \/ \E c \in LockConns : Connect(c)
  \/ \E c \in LockConns, t \in LockTickets : AuthBegin(c, t, None, None)
  \/ \E a \in inflight : AuthVerify(a)
  \/ \E a \in inflight : AuthResume(a)
  \/ \E c \in LockConns : Close(c)
  \/ \E c \in LockConns, e \in LockElements : RequestLock(c, e, "block")
  \/ \E c \in LockConns, e \in LockElements : ReleaseLock(c, e)

SpecLock == Init /\ [][NextLock]_vars

\* The users that hold the lock on elementId in a workspace.
LockHolders(workspaceId, elementId) ==
  {workspaceLocks[workspaceId][i][2].lockedBy :
     i \in {j \in 1..Len(workspaceLocks[workspaceId]) :
              workspaceLocks[workspaceId][j][1] = elementId}}

MutualExclusion ==
  \A w \in DOMAIN workspaceLocks : \A e \in LockElements :
    Cardinality(LockHolders(w, e)) <= 1

\* The step handles a request_lock frame of an authenticated connection for
\* an element whose lock another user holds.
ContendedRequest(c, e) ==
  /\ lastFrame'.type = "request_lock" /\ lastFrame'.ws = c /\ lastFrame'.elementId = e
  /\ Authenticated(c)
  /\ conns[c].workspaceId \in DOMAIN workspaceLocks
  /\ LockHolders(conns[c].workspaceId, e) \notin {{}, {conns[c].userId}}

HolderOf(c, e) == OMapGet(workspaceLocks[conns[c].workspaceId], e).lockedBy

DeniedWith(c, e, lockedBy) ==
  /\ Len(sent') = 1
  /\ sent'[1].to = c
  /\ sent'[1].msg.type = "lock_denied"
  /\ sent'[1].msg.elementId = e
  /\ sent'[1].msg.lockedBy = lockedBy

\* C1 as stated: at most one holder per element, and every request_lock from
\* a user other than the holder is answered with lock_denied carrying the
\* holder's id and leaves the lock unchanged.
C1_Original ==
  /\ []MutualExclusion
  /\ [][\A c \in LockConns, e \in LockElements :
          ContendedRequest(c, e) =>
            /\ DeniedWith(c, e, HolderOf(c, e))
            /\ workspaceLocks' = workspaceLocks]_vars

\* C1 (amended): at most one user holds the lock on an element; a request_lock
\* from a user other than the holder leaves the lock unchanged and is answered
\* with lock_denied, carrying the holder's id when the requester has the edit
\* permission for the element type, and lockedBy null with reason forbidden
\* when it has not.
C1_LockDenied ==
  /\ []MutualExclusion
  /\ [][\A c \in LockConns, e \in LockElements :
          ContendedRequest(c, e) =>
            /\ workspaceLocks' = workspaceLocks
            /\ IF hasPermission(workspacePermissions, conns[c].workspaceId,
                                conns[c].userId, "canEditBlocks")
               THEN DeniedWith(c, e, HolderOf(c, e))
               ELSE DeniedWith(c, e, Null) /\ sent'[1].msg.reason = "forbidden"]_vars

\* A request for a held element was just denied with the holder's id.
C1_Witness ==
  /\ lastFrame.type = "request_lock"
  /\ lastFrame.outcome = "denied"
  /\ \E w \in DOMAIN workspaceLocks :
       /\ OMapHas(workspaceLocks[w], lastFrame.elementId)
       /\ sent[1].msg.lockedBy = OMapGet(workspaceLocks[w], lastFrame.elementId).lockedBy
       /\ sent[1].msg.lockedBy # lastFrame.userId


\* The step admits a user that is already a member, on another socket.
TakeOverStep ==
  /\ lastFrame'.type = "auth" /\ lastFrame'.outcome = "replaced"
  /\ OMapGet(workspaces[lastFrame'.workspaceId], lastFrame'.userId).ws # lastFrame'.ws

\* The step is the close event of a socket that a take-over replaced.
ReplacedCloseStep ==
  /\ lastFrame'.type = "close"
  /\ conns[lastFrame'.ws].skipCleanup

\* C2: a take-over puts the new socket in the member's slot, adds no member
\* and keeps every lock; the close event of the replaced socket removes no
\* member, releases no lock and sends nothing (no user_left).
C2_TakeOverKeepsLocks ==
  /\ [][TakeOverStep =>
          LET w == lastFrame'.workspaceId
              u == lastFrame'.userId
          IN /\ OMapGet(workspaces'[w], u).ws = lastFrame'.ws
             /\ [i \in 1..Len(workspaces'[w]) |-> workspaces'[w][i][1]]
                  = [i \in 1..Len(workspaces[w]) |-> workspaces[w][i][1]]
             /\ workspaceLocks' = workspaceLocks
             /\ conns'[OMapGet(workspaces[w], u).ws].skipCleanup]_vars
  /\ [][ReplacedCloseStep =>
          /\ workspaces' = workspaces
          /\ workspaceLocks' = workspaceLocks
          /\ sent' = << >>]_vars

\* The replaced socket of a user has just closed while the user, on its new
\* socket, is a member next to another member and still holds a lock.
C2_Witness ==
  /\ lastFrame.type = "close" /\ lastFrame.outcome = "skipped"
  /\ lastFrame.workspaceId \in DOMAIN workspaces
  /\ LET w == lastFrame.workspaceId
         u == lastFrame.userId
     IN /\ OMapHas(workspaces[w], u)
        /\ conns[OMapGet(workspaces[w], u).ws].readyState = "OPEN"
        /\ \E i \in 1..Len(workspaces[w]) :
             /\ workspaces[w][i][1] # u
             /\ conns[workspaces[w][i][2].ws].readyState = "OPEN"
        /\ \E i \in 1..Len(workspaceLocks[w]) : workspaceLocks[w][i][2].lockedBy = u


\* =========================================================================
\* SpecTicket: join tickets against the clock, two sockets.  j1 is carried by
\* two tickets for different users with different exp, so the exp recorded
\* for a consumed j1 names the ticket that consumed it.
TicketConns == {"c1", "c2"}

TicketTickets ==
  {Ticket("u1", "w", "j1", 2, "TEACHER", "ok"),
   Ticket("u2", "w", "j1", 3, "STUDENT", "ok"),
   Ticket("u2", "w", "j2", 9, "ADMIN", "bad")}

NextTicket ==
  \/ Tick
  \/ \E c \in TicketConns : Connect(c)
  \/ \E c \in TicketConns : AuthMissing(c)
  \/ \E c \in TicketConns, t \in TicketTickets : AuthBegin(c, t, None, None)
  \/ \E a \in inflight : AuthVerify(a)
  \/ \E a \in inflight : AuthResume(a)
  \/ \E c \in TicketConns : Close(c)
  \/ \E w \in DOMAIN workspaceCleanupTimers : TimerFire(w)

SpecTicket == Init /\ [][NextTicket]_vars

\* The step is the continuation of the auth handler suspended as `a`.
ResumeStep(a) == a.phase = "verified" /\ a \notin inflight'

\* The ticket that consumed a jti (read off the recorded exp).
ConsumerOf(jti) ==
  CHOOSE t \in TicketTickets : t.jti = jti /\ t.exp = consumedTicketIds[jti]

SamePair(t1, t2) == t1.sub = t2.sub /\ t1.workspaceId = t2.workspaceId

ReplayRejected(a) ==
  /\ lastFrame'.outcome = "rejected"
  /\ sent' = <<Send(a.ws, ErrorFrame("Join ticket has already been used"))>>
  /\ conns[a.ws].readyState = "OPEN" =>
       conns'[a.ws].readyState = "CLOSING" /\ conns'[a.ws].closeCode = 4003
  /\ workspaces' = workspaces

C4_SingleUse ==
  [][\A a \in inflight :
       (ResumeStep(a) /\ a.token.jti \in admittedTicketIds) =>
         /\ lastFrame'.outcome = "rejected"
         /\ workspaces' = workspaces]_vars

\* =========================================================================
\* SpecEntity: two members and the five mutations of the shared state.
EntityConns == {"c1", "c2"}

\* The connection each ticket is presented on.
EntityLogins ==
  {<<"c1", Ticket("u1", "w", "j1", 9, "TEACHER", "ok")>>,
   <<"c2", Ticket("u2", "w", "j2", 9, "ADMIN", "ok")>>}

\* The If-Match values a frame for an entity of the given kinds may carry:
\* none, the wildcard, or the ETag of version 1 of one of the entities.
IfMatchInputs(keys) == {NoEtag, Star} \cup {buildEntityEtag(k, 1) : k \in keys}

BlockKeys == {<<"block", "b1">>}
SpriteKeys == {<<"sprite", "s1">>, <<"sprite-metrics", "s1">>}
SnapshotKeys == {<<"workspace-snapshot", "s1">>}

\* <<elementType, elementData, elementId, keys>> of create_element and
\* delete_element.
CreateInputs ==
  {<<"block", RecordData("b1", Undefined, "1"), "", BlockKeys>>,
   <<"sprite", RecordData("", "1", Undefined), "s1", SpriteKeys>>,
   <<"sprite", NoData, "s1", SpriteKeys>>}

DeleteInputs ==
  {<<"block", NoData, "b1", BlockKeys>>, <<"sprite", NoData, "s1", SpriteKeys>>}

NextEntity ==
  \/ \E c \in EntityConns : Connect(c)
  \/ \E p \in EntityLogins : AuthBegin(p[1], p[2], None, None)
  \/ \E a \in inflight : AuthVerify(a)
  \/ \E a \in inflight : AuthResume(a)
  \/ \E c \in EntityConns, m \in IfMatchInputs(BlockKeys) : BlockMove(c, "b1", "1", m)
  \/ \E c \in EntityConns, m \in IfMatchInputs(SpriteKeys) : SpriteUpdate(c, "s1", "1", m)
  \/ \E c \in EntityConns, i \in CreateInputs :
       \E m \in IfMatchInputs(i[4]) : CreateElement(c, i[1], i[2], i[3], m)
  \/ \E c \in EntityConns, i \in DeleteInputs :
       \E m \in IfMatchInputs(i[4]) : DeleteElement(c, i[1], i[2], i[3], m)
  \/ \E c \in EntityConns, m \in IfMatchInputs(SnapshotKeys) :
       WorkspaceSnapshot(c, "s1", "s1", m)

SpecEntity == Init /\ [][NextEntity]_vars

MutationTypes ==
  {"block_move", "sprite_update", "create_element", "delete_element",
   "workspace_snapshot"}

EtagOf(shared, workspaceId, kind, id) ==
  LET stored == StoredEntities(shared)
  IN IF <<workspaceId, kind, id>> \in DOMAIN stored
     THEN stored[<<workspaceId, kind, id>>].etag ELSE NoEtag

\* The ETags a mutation frame f is compared with, in the state before it.
CurrentEtags(f) ==
  LET etag(kind) == EtagOf(workspaceSharedState, f.workspaceId, kind, f.elementId)
  IN CASE f.type = "block_move" -> {etag("block")}
       [] f.type = "sprite_update" -> {etag("sprite-metrics"), etag("sprite")}
       [] f.type = "create_element" -> {etag(f.elementType)}
       [] f.type = "delete_element" ->
            {etag(f.elementType)} \cup
            (IF f.elementType = "sprite" THEN {etag("sprite-metrics")} ELSE {})
       [] OTHER -> {etag("workspace-snapshot")}

\* The step handles mutation frame lastFrame' of a member that may make it,
\* and the frame carries an If-Match that is no current ETag of its entity.
FailsIfMatch ==
  LET f == lastFrame'
  IN /\ f.type \in MutationTypes
     /\ Authenticated(f.ws)
     /\ f.elementId # ""
     /\ f.type \in {"block_move", "workspace_snapshot"} =>
          hasPermission(workspacePermissions, f.workspaceId, f.userId, "canEditBlocks")
     /\ ~lockedByOther(LocksOf(f.workspaceId), f.elementId, f.userId)
     /\ f.ifMatch \notin {NoEtag, Star}
     /\ f.ifMatch \notin CurrentEtags(f)

\* C6: when a block_move, sprite_update, create_element, delete_element or
\* workspace_snapshot fails its If-Match check, the only frame sent is a
\* conflict frame on the sender's socket (nothing is broadcast to a member)
\* and no stored entity changes: versions, ETags, data and the first-edited
\* and updated metadata are what they were.
C6_ConflictChangesNothing ==
  [][FailsIfMatch =>
       /\ Len(sent') = 1
       /\ sent'[1].to = lastFrame'.ws
       /\ sent'[1].msg.type = "conflict"
       /\ sent'[1].msg.ifMatch = lastFrame'.ifMatch
       /\ StoredEntities(workspaceSharedState') = StoredEntities(workspaceSharedState)]_vars

AllMembersOpen(workspaceId, n) ==
  /\ workspaceId \in DOMAIN workspaces
  /\ Len(workspaces[workspaceId]) = n
  /\ \A i \in 1..n : conns[workspaces[workspaceId][i][2].ws].readyState = "OPEN"

\* A sprite_update carrying the stale ETag of version 1 has just been refused
\* while the metrics are at version 2 and a second member is connected.
C6_Witness ==
  /\ lastFrame.type = "sprite_update"
  /\ lastFrame.outcome = "conflict"
  /\ lastFrame.ifMatch = buildEntityEtag(<<"sprite-metrics", "s1">>, 1)
  /\ AllMembersOpen("w", 2)
  /\ <<"w", "sprite-metrics", "s1">> \in DOMAIN StoredEntities(workspaceSharedState)
  /\ StoredEntities(workspaceSharedState)[<<"w", "sprite-metrics", "s1">>].version = 2
  /\ Len(sent) = 1 /\ sent[1].msg.type = "conflict"

\* The (entity, version) pairs of the frames broadcast by the step.
StepVersions == BroadcastVersions(sent', lastFrame'.workspaceId)

NextEntityClock ==
  \/ Tick
  \/ \E c \in EntityConns : Connect(c)
  \/ \E p \in EntityLogins : AuthBegin(p[1], p[2], None, None)
  \/ \E a \in inflight : AuthVerify(a)
  \/ \E a \in inflight : AuthResume(a)
  \/ \E c \in EntityConns : BlockMove(c, "b1", "1", NoEtag)
  \/ \E c \in EntityConns, x \in {"1", "abc"} : SpriteUpdate(c, "s1", x, NoEtag)
  \/ \E c \in EntityConns, i \in CreateInputs : CreateElement(c, i[1], i[2], i[3], NoEtag)
  \/ \E c \in EntityConns, j \in {"s1", "huge"} : WorkspaceSnapshot(c, "s1", j, NoEtag)

SpecEntityClock == Init /\ [][NextEntityClock]_vars

\* The entities the step wrote: new in the store, or changed.
WrittenEntities ==
  LET before == StoredEntities(workspaceSharedState)
      after == StoredEntities(workspaceSharedState')
  IN {e \in DOMAIN after : e \notin DOMAIN before \/ after[e] # before[e]}

\* C8: after every successful mutation of an entity (block, sprite,
\* sprite-metrics, workspace-snapshot) the stored entity has updatedBy equal
\* to the user id of the sender and updatedAt >= firstEditedAt.
C8_UpdatedMetadata ==
  [][(lastFrame'.type \in MutationTypes /\ lastFrame'.outcome = "applied") =>
       /\ lastFrame'.type # "delete_element" => WrittenEntities # {}
       /\ \A e \in WrittenEntities :
            LET entity == StoredEntities(workspaceSharedState')[e]
            IN /\ entity.updatedBy = conns[lastFrame'.ws].userId
               /\ entity.updatedAt >= entity.firstEditedAt
               /\ entity.updatedAt = now]_vars

\* An entity first edited by one member has been updated later by the other.
C8_Witness ==
  /\ lastFrame.type \in MutationTypes
  /\ lastFrame.outcome = "applied"
  /\ \E e \in DOMAIN StoredEntities(workspaceSharedState) :
       LET entity == StoredEntities(workspaceSharedState)[e]
       IN /\ entity.updatedBy = lastFrame.userId
          /\ entity.updatedBy # entity.firstEditedBy
          /\ entity.updatedAt > entity.firstEditedAt

\* =========================================================================
\* SpecRetention: members leave and come back around the cleanup timer while
\* the shared state and the permission state of the workspace are not empty.
RetentionConns == {"c1", "c2"}

RetentionLogins ==
  {<<"c1", Ticket("u1", "w", "j1", 9, "TEACHER", "ok")>>,
   <<"c2", Ticket("u1", "w", "j2", 9, "TEACHER", "ok")>>}

NextRetention ==
  \/ Tick
  \/ \E c \in RetentionConns : Connect(c)
  \/ \E p \in RetentionLogins : AuthBegin(p[1], p[2], None, None)
  \/ \E a \in inflight : AuthVerify(a)
  \/ \E a \in inflight : AuthResume(a)
  \/ \E c \in RetentionConns : Close(c)
  \/ \E w \in DOMAIN workspaceCleanupTimers : TimerFire(w)
  \/ \E c \in RetentionConns :
       CreateElement(c, "block", RecordData("b1", Undefined, "1"), "", NoEtag)
  \/ \E c \in RetentionConns : UpdateGlobalPermission(c, "canDraw", "true")
  \/ \E c \in RetentionConns, u \in Users : UpdateUserPermission(c, u, "canChat", "false")

SpecRetention == Init /\ [][NextRetention]_vars

MemberCount(wss, w) == IF w \in DOMAIN wss THEN Len(wss[w]) ELSE 0

\* The close handler removes the last member of w.
LastMemberLeaves(w) ==
  /\ lastFrame'.type = "close"
  /\ MemberCount(workspaces, w) > 0
  /\ MemberCount(workspaces', w) = 0

\* The cleanup timer of w fires and no admission has refilled w.
TimerFiresOnEmpty(w) ==
  /\ lastFrame'.type = "cleanup_timer" /\ lastFrame'.workspaceId = w
  /\ MemberCount(workspaces, w) = 0

Destroyed(w) ==
  /\ w \notin DOMAIN workspaces'
  /\ w \notin DOMAIN workspaceLocks'
  /\ w \notin DOMAIN workspaceSharedState'
  /\ w \notin DOMAIN workspacePermissions'
  /\ w \notin DOMAIN workspaceCleanupTimers'

\* A ticket is admitted into w while the cleanup timer of w is pending.
AdmissionBeforeTimer(w) ==
  /\ lastFrame'.type = "auth" /\ lastFrame'.outcome \in {"joined", "replaced"}
  /\ lastFrame'.workspaceId = w
  /\ w \in DOMAIN workspaceCleanupTimers

SharedStateKept(w) ==
  /\ w \in DOMAIN workspaceSharedState
  /\ w \in DOMAIN workspaceSharedState'
  /\ workspaceSharedState'[w] = workspaceSharedState[w]

\* The override the admission gives the admitted user, by the ticket's role.
RoleOverride(wp, w, userId, role) ==
  CASE role = "ADMIN" ->
         userId \in DOMAIN wp[w].userPermissions
         /\ wp[w].userPermissions[userId] = getOwnerPermissions
    [] role = "TEACHER" ->
         userId \in DOMAIN wp[w].userPermissions
         /\ wp[w].userPermissions[userId] = getTeacherPermissions
    [] OTHER -> userId \notin DOMAIN wp[w].userPermissions

PermissionsKeptForOthers(w, userId) ==
  /\ w \in DOMAIN workspacePermissions
  /\ w \in DOMAIN workspacePermissions'
  /\ workspacePermissions'[w].globalPermissions = workspacePermissions[w].globalPermissions
  /\ \A u \in Users \ {userId} :
       /\ u \in DOMAIN workspacePermissions'[w].userPermissions
            <=> u \in DOMAIN workspacePermissions[w].userPermissions
       /\ u \in DOMAIN workspacePermissions[w].userPermissions =>
            workspacePermissions'[w].userPermissions[u] =
              workspacePermissions[w].userPermissions[u]

LeaveAndFire(w) ==
  /\ LastMemberLeaves(w) =>
       /\ w \in DOMAIN workspaceCleanupTimers'
       /\ workspaceCleanupTimers'[w] = now + EMPTY_WORKSPACE_RETENTION_MS
       /\ UNCHANGED <<workspaceSharedState, workspacePermissions>>
  /\ TimerFiresOnEmpty(w) => Destroyed(w)

\* C5 as stated: an admission before the timer fires cancels it and leaves
\* the shared state and the whole permission state of W as they were.
C5_Original ==
  [][\A w \in Workspaces :
       /\ LeaveAndFire(w)
       /\ AdmissionBeforeTimer(w) =>
            /\ w \notin DOMAIN workspaceCleanupTimers'
            /\ SharedStateKept(w)
            /\ workspacePermissions'[w] = workspacePermissions[w]]_vars

\* C5: when the last member of W leaves, the cleanup timer is set one
\* retention interval ahead; when it fires with W still empty, the member
\* map, lock map, shared state and permission state of W are destroyed; an
\* admission into W before it fires cancels the timer and keeps the shared
\* state, the global permissions and the other users' overrides of W, while
\* the admitted user's own override is set anew from the role of the ticket.
C5_Retention ==
  [][\A w \in Workspaces :
       /\ LeaveAndFire(w)
       /\ AdmissionBeforeTimer(w) =>
            /\ w \notin DOMAIN workspaceCleanupTimers'
            /\ SharedStateKept(w)
            /\ PermissionsKeptForOthers(w, lastFrame'.userId)
            /\ \E p \in RetentionLogins :
                 /\ p[2].jti = lastFrame'.jti
                 /\ RoleOverride(workspacePermissions', w, lastFrame'.userId,
                                 p[2].role)]_vars

\* The second ticket has just been admitted into the emptied workspace: the
\* timer is gone, the block, the changed global set and the override of the
\* absent user are still there.
C5_Witness ==
  /\ lastFrame.type = "auth" /\ lastFrame.outcome = "joined"
  /\ Cardinality(admittedTicketIds) = 2
  /\ "w" \notin DOMAIN workspaceCleanupTimers
  /\ "w" \in DOMAIN workspaceSharedState
  /\ <<"block", "b1">> \in DOMAIN workspaceSharedState["w"].elements
  /\ "w" \in DOMAIN workspacePermissions
  /\ workspacePermissions["w"].globalPermissions["canDraw"]
  /\ "u2" \in DOMAIN workspacePermissions["w"].userPermissions

\* =========================================================================
\* SpecPerm: an ADMIN and a TEACHER change the permissions of the workspace.
PermConns == {"c1", "c2"}

PermLogins ==
  {<<"c1", Ticket("u1", "w", "j1", 9, "ADMIN", "ok")>>,
   <<"c2", Ticket("u2", "w", "j2", 9, "TEACHER", "ok")>>}

\* <<permission, value>> of update_global_permission.
GlobalUpdates ==
  {<<"canDraw", "true">>, <<"canDraw", "false">>, <<"canDraw", "1">>,
   <<"bogus", "true">>}

\* <<targetUserId, permission, value>> of update_user_permission.
UserUpdates ==
  {<<"u1", "canDraw", "false">>, <<"u2", "canDraw", "true">>,
   <<"u2", "canChangePermissions", "false">>, <<"", "canDraw", "true">>}

ModeInputs == PresetModes \cup {"bogus"}

NextPerm ==
  \/ \E c \in PermConns : Connect(c)
  \/ \E p \in PermLogins : AuthBegin(p[1], p[2], None, None)
  \/ \E a \in inflight : AuthVerify(a)
  \/ \E a \in inflight : AuthResume(a)
  \/ \E c \in PermConns, g \in GlobalUpdates : UpdateGlobalPermission(c, g[1], g[2])
  \/ \E c \in PermConns, u \in UserUpdates : UpdateUserPermission(c, u[1], u[2], u[3])
  \/ \E c \in PermConns, m \in ModeInputs : ApplyPresetMode(c, m)

SpecPerm == Init /\ [][NextPerm]_vars

\* The step handles frame lastFrame' of the given type, sent by a member that
\* holds canChangePermissions.
PermittedFrame(type) ==
  /\ lastFrame'.type = type
  /\ Authenticated(lastFrame'.ws)
  /\ lastFrame'.workspaceId \in DOMAIN workspacePermissions
  /\ hasPermission(workspacePermissions, lastFrame'.workspaceId, lastFrame'.userId,
                   "canChangePermissions")

GlobalOf(wp, w) == wp[w].globalPermissions

\* C9: apply_preset_mode replaces the global permission set of the workspace
\* with the set of the preset, whatever the previous global set was, and a
\* later update_global_permission changes exactly the named key of that set.
C9_PresetReplaces ==
  [][LET w == lastFrame'.workspaceId
     IN /\ (PermittedFrame("apply_preset_mode") /\ lastFrame'.mode \in PresetModes) =>
             /\ \A k \in PERMISSION_KEYS :
                  GlobalOf(workspacePermissions', w)[k] =
                    PresetPermissions(lastFrame'.mode)[k]
             /\ workspacePermissions'[w].userPermissions =
                  workspacePermissions[w].userPermissions
        /\ (PermittedFrame("update_global_permission")
            /\ isPermissionKey(lastFrame'.permission) /\ IsBoolean(lastFrame'.value)) =>
             /\ \A k \in PERMISSION_KEYS :
                  GlobalOf(workspacePermissions', w)[k] =
                    IF k = lastFrame'.permission THEN ToBoolean(lastFrame'.value)
                    ELSE GlobalOf(workspacePermissions, w)[k]
             /\ workspacePermissions'[w].userPermissions =
                  workspacePermissions[w].userPermissions]_vars

\* The preset "work" was applied and canDraw was
\* granted afterwards: the global set is the preset with that one key changed.
C9_Witness ==
  /\ lastFrame.type = "update_global_permission" /\ lastFrame.outcome = "applied"
  /\ lastFrame.permission = "canDraw" /\ lastFrame.value = "true"
  /\ "w" \in DOMAIN workspacePermissions
  /\ GlobalOf(workspacePermissions, "w") =
       [PresetPermissions("work") EXCEPT !["canDraw"] = TRUE]

\* C10 as stated: the effective permission set of every member whose role is
\* ADMIN is the ADMIN template (every key true) in every reachable state.
C10_AdminTemplate ==
  \A w \in DOMAIN workspaces : \A i \in 1..Len(workspaces[w]) :
    workspaces[w][i][2].role = "ADMIN" =>
      getUserPermissions(workspacePermissions, w, workspaces[w][i][1]) =
        getOwnerPermissions

PermissionFrameTypes ==
  {"update_global_permission", "update_user_permission", "apply_preset_mode"}

\* The sender of frame f is authenticated and the permission set the
\* resolver gives it has canChangePermissions.
MayChangePermissions(f) ==
  /\ Authenticated(f.ws)
  /\ getUserPermissions(workspacePermissions, f.workspaceId, f.userId)["canChangePermissions"]

\* C11: update_global_permission, update_user_permission and
\* apply_preset_mode change the permission state of the workspace only when
\* the sender's effective set has canChangePermissions when the frame is
\* handled; otherwise the global set and every override are unchanged and no
\* frame is sent.
C11_OnlyWithPermission ==
  [][(lastFrame'.type \in PermissionFrameTypes /\ ~MayChangePermissions(lastFrame')) =>
       /\ workspacePermissions' = workspacePermissions
       /\ sent' = << >>]_vars

\* A member whose canChangePermissions was revoked has just sent one of the
\* three frames, next to another connected member: nothing was sent.
C11_Witness ==
  /\ lastFrame.type \in PermissionFrameTypes
  /\ lastFrame.outcome = "ignored"
  /\ lastFrame.userId = "u2"
  /\ AllMembersOpen("w", 2)
  /\ OMapHas(workspaces["w"], "u2")
  /\ OMapGet(workspaces["w"], "u2").ws = lastFrame.ws
  /\ ~getUserPermissions(workspacePermissions, "w", "u2")["canChangePermissions"]
  /\ sent = << >>

\* C12: in every reachable state a workspace is in the registry if and only
\* if its member map is not empty or a cleanup timer is armed for it.
C12_RegistryIff ==
  \A w \in Workspaces :
    w \in DOMAIN workspaces <=>
      (MemberCount(workspaces, w) > 0 \/ w \in DOMAIN workspaceCleanupTimers)

\* The last member has left: the workspace is registered with an empty
\* member map and its timer is armed.
C12_Witness ==
  /\ lastFrame.type = "close" /\ lastFrame.outcome = "cleanup"
  /\ "w" \in DOMAIN workspaces
  /\ MemberCount(workspaces, "w") = 0
  /\ "w" \in DOMAIN workspaceCleanupTimers

\* The step grants the lock on e in w.
GrantStep(w, e) ==
  /\ lastFrame'.type = "request_lock" /\ lastFrame'.outcome = "granted"
  /\ lastFrame'.workspaceId = w /\ lastFrame'.elementId = e

LastGranted(w, e) ==
  IF <<w, e>> \in DOMAIN lockGrants THEN lockGrants[<<w, e>>] ELSE 0

\* C13 as stated: for every element of a workspace the version of each lock
\* grant is the version of the grant before it plus one (1 on the first
\* grant), also when a release_lock or the holder's disconnect came between.
C13_GrantVersionsIncrease ==
  [][\A w \in Workspaces, e \in LockElements :
       GrantStep(w, e) =>
         /\ Len(sent') >= 1
         /\ sent'[1].msg.type = "lock_granted"
         /\ sent'[1].msg.version = LastGranted(w, e) + 1]_vars

\* The elements of w whose lock userId holds.
LocksHeldBy(locks, w, userId) ==
  IF w \notin DOMAIN locks THEN {}
  ELSE {locks[w][i][1] : i \in {j \in 1..Len(locks[w]) : locks[w][j][2].lockedBy = userId}}

\* The sockets of the members of w that are open.
OpenMemberSockets(cs, wss, w) ==
  IF w \notin DOMAIN wss THEN {}
  ELSE {wss[w][i][2].ws : i \in {j \in 1..Len(wss[w]) : cs[wss[w][j][2].ws].readyState = "OPEN"}}

\* The number of element_unlocked frames for e sent to socket ws by the step.
UnlockedSent(ws, e) ==
  Cardinality({i \in 1..Len(sent') :
                 /\ sent'[i].to = ws
                 /\ sent'[i].msg.type = "element_unlocked"
                 /\ sent'[i].msg.elementId = e})

\* The step is the close event of an authenticated socket that no take-over
\* has replaced.
UnreplacedCloseStep(c) ==
  /\ lastFrame'.type = "close" /\ lastFrame'.ws = c
  /\ Authenticated(c)
  /\ ~conns[c].skipCleanup

\* C14: when an authenticated connection that was not replaced by a take-over
\* closes, its user is no longer in the member map of the workspace, holds no
\* lock in that workspace, and one element_unlocked frame per released lock
\* was sent to every remaining member with an open socket.
C14_CloseReleases ==
  [][\A c \in LockConns :
       UnreplacedCloseStep(c) =>
         LET w == conns[c].workspaceId
             u == conns[c].userId
         IN /\ w \in DOMAIN workspaces' => ~OMapHas(workspaces'[w], u)
            /\ LocksHeldBy(workspaceLocks', w, u) = {}
            /\ \A e \in LocksHeldBy(workspaceLocks, w, u) :
                 \A ws \in OpenMemberSockets(conns', workspaces', w) :
                   UnlockedSent(ws, e) = 1]_vars

\* A member that held a lock has just left while another member was
\* connected: that member was sent element_unlocked and then user_left.
C14_Witness ==
  /\ lastFrame.type = "close" /\ lastFrame.outcome = "cleanup"
  /\ Len(sent) = 2
  /\ sent[1].msg.type = "element_unlocked" /\ sent[1].msg.elementId = "b1"
  /\ sent[2].msg.type = "user_left" /\ sent[2].msg.userId = lastFrame.userId
  /\ lastFrame.workspaceId \in DOMAIN workspaces
  /\ ~OMapHas(workspaces[lastFrame.workspaceId], lastFrame.userId)
  /\ LocksHeldBy(workspaceLocks, lastFrame.workspaceId, lastFrame.userId) = {}

\* The frame types of the model other than auth.
NonAuthFrameTypes ==
  MutationTypes \cup PermissionFrameTypes \cup
  {"request_lock", "release_lock", "request_teacher_role"}

\* C15 as stated: every frame of a type other than auth that arrives on a
\* connection that is not authenticated is answered with an error frame,
\* changes no workspace state, is not broadcast, and leaves the connection open.
C15_UnauthenticatedError ==
  [][(lastFrame'.type \in NonAuthFrameTypes /\ ~Authenticated(lastFrame'.ws)) =>
       /\ Len(sent') = 1
       /\ sent'[1].to = lastFrame'.ws
       /\ sent'[1].msg.type = "error"
       /\ UNCHANGED <<workspaces, workspaceLocks, workspaceSharedState,
                      workspacePermissions, workspaceCleanupTimers>>
       /\ conns'[lastFrame'.ws].readyState = conns[lastFrame'.ws].readyState]_vars

\* =========================================================================
\* SpecEntityStudent: a TEACHER and a STUDENT send the three mutations that
\* the spec puts under an edit permission.
StudentLogins ==
  {<<"c1", Ticket("u1", "w", "j1", 9, "TEACHER", "ok")>>,
   <<"c2", Ticket("u2", "w", "j2", 9, "STUDENT", "ok")>>}

NextEntityStudent ==
  \/ \E c \in EntityConns : Connect(c)
  \/ \E p \in StudentLogins : AuthBegin(p[1], p[2], None, None)
  \/ \E a \in inflight : AuthVerify(a)
  \/ \E a \in inflight : AuthResume(a)
  \/ \E c \in EntityConns : BlockMove(c, "b1", "1", NoEtag)
  \/ \E c \in EntityConns : SpriteUpdate(c, "s1", "1", NoEtag)
  \/ \E c \in EntityConns, j \in {"s1", "huge"} : WorkspaceSnapshot(c, "s1", j, NoEtag)

SpecEntityStudent == Init /\ [][NextEntityStudent]_vars

\* The edit permission the spec names for a mutation frame.
EditPermissionOf(type) ==
  IF type = "sprite_update" THEN "canEditSprites" ELSE "canEditBlocks"

\* C16 as stated: a block_move, sprite_update or workspace_snapshot sent by a
\* member whose effective permission set lacks the edit permission of the
\* target kind (canEditBlocks for blocks and snapshots, canEditSprites for
\* sprites) is dropped: no stored entity changes and no frame goes to another
\* member.
C16_EditPermissionRequired ==
  [][LET f == lastFrame'
     IN (/\ f.type \in {"block_move", "sprite_update", "workspace_snapshot"}
         /\ Authenticated(f.ws)
         /\ ~getUserPermissions(workspacePermissions, f.workspaceId,
                                f.userId)[EditPermissionOf(f.type)]) =>
          /\ StoredEntities(workspaceSharedState') = StoredEntities(workspaceSharedState)
          /\ \A i \in 1..Len(sent') : sent'[i].to = f.ws]_vars

\* The ETags of the stored entities a sprite_update for spriteId is about:
\* the sprite-metrics entity and the sprite element, each when it exists.
SpriteEtags(shared, w, spriteId) ==
  {EtagOf(shared, w, "sprite-metrics", spriteId),
   EtagOf(shared, w, "sprite", spriteId)} \ {NoEtag}

\* C17 as stated: a sprite_update with an explicit ifMatch other than "*" is
\* applied only if ifMatch equals the current ETag of every relevant entity
\* (the sprite element and the sprite-metrics entity when both exist);
\* otherwise a conflict frame is sent and nothing is written.
C17_IfMatchEveryEntity ==
  [][LET f == lastFrame'
     IN (/\ f.type = "sprite_update"
         /\ Authenticated(f.ws)
         /\ f.elementId # ""
         /\ ~lockedByOther(LocksOf(f.workspaceId), f.elementId, f.userId)
         /\ f.ifMatch \notin {NoEtag, Star}
         /\ \E t \in SpriteEtags(workspaceSharedState, f.workspaceId, f.elementId) :
              t # f.ifMatch) =>
          /\ Len(sent') = 1
          /\ sent'[1].to = f.ws
          /\ sent'[1].msg.type = "conflict"
          /\ StoredEntities(workspaceSharedState') = StoredEntities(workspaceSharedState)]_vars

\* =========================================================================
\* SpecRoundTrip: members create elements, read the shared state back with
\* request_shared_state and send an element of the snapshot again through
\* create_element, with the ETag the snapshot gives for it.

\* case 'request_shared_state' (server.ts 506-515).
RequestSharedState(c) ==
  /\ CanReceive(c)
  /\ LET workspaceId == conns[c].workspaceId
         in == InboundOf(c, "request_shared_state")
     IN IF ~conns[c].isAuthenticated \/ workspaceId = None
        THEN /\ sent' = << >>
             /\ lastFrame' = [in EXCEPT !.outcome = "ignored"]
             /\ UNCHANGED workspaceSharedState
        ELSE LET shared == ensureWorkspaceSharedState(workspaceSharedState, workspaceId)
             IN /\ workspaceSharedState' = shared
                /\ sent' = <<Send(c, [Frame EXCEPT !.type = "shared_state",
                                        !.sharedState = sharedStateToPayload(shared[workspaceId])])>>
                /\ lastFrame' = [in EXCEPT !.outcome = "applied"]
  /\ UNCHANGED <<wsClient, env, now, conns, inflight, authFrames, workspaces, workspaceLocks,
                 workspaceCleanupTimers, workspacePermissions, consumedTicketIds,
                 admittedTicketIds, lockGrants, published, entityFrames>>

\* The elements of the shared_state frame socket c has just received.
SnapshotElements(c) ==
  UNION {sent[i].msg.sharedState.elements :
           i \in {j \in 1..Len(sent) : sent[j].to = c /\ sent[j].msg.type = "shared_state"}}

RoundTripCreates ==
  {<<"block", RecordData("b1", Undefined, "1"), "">>,
   <<"sprite", RecordData("", "1", Undefined), "s1">>}

NextRoundTrip ==
  \/ Tick
  \/ \E c \in EntityConns : Connect(c)
  \/ \E p \in EntityLogins : AuthBegin(p[1], p[2], None, None)
  \/ \E a \in inflight : AuthVerify(a)
  \/ \E a \in inflight : AuthResume(a)
  \/ \E c \in EntityConns, i \in RoundTripCreates : CreateElement(c, i[1], i[2], i[3], NoEtag)
  \/ \E c \in EntityConns : RequestSharedState(c)
  \/ \E c \in EntityConns : \E el \in SnapshotElements(c) :
       CreateElement(c, el.elementType, el.elementData, el.elementId, el.etag)

SpecRoundTrip == Init /\ [][NextRoundTrip]_vars

\* The step sends an element of the snapshot just received back through
\* create_element with the element's ETag as ifMatch.
ReapplyStep ==
  /\ lastFrame.type = "request_shared_state" /\ lastFrame.outcome = "applied"
  /\ lastFrame'.type = "create_element"
  /\ lastFrame'.ws = lastFrame.ws
  /\ lastFrame'.ifMatch # NoEtag

VersionAndFirstEdit(entity) ==
  <<entity.version, entity.firstEditedBy, entity.firstEditedAt>>

\* C18 as stated: re-applying an element of the snapshot returned by
\* request_shared_state through create_element with the element's current
\* ETag as ifMatch leaves every entity with the version and the
\* firstEditedBy/firstEditedAt it had.
C18_RoundTripSameState ==
  [][ReapplyStep =>
       LET before == StoredEntities(workspaceSharedState)
           after == StoredEntities(workspaceSharedState')
       IN /\ DOMAIN after = DOMAIN before
          /\ \A e \in DOMAIN before :
               VersionAndFirstEdit(after[e]) = VersionAndFirstEdit(before[e])]_vars

\* The step handles a request_lock frame of an authenticated connection whose
\* user holds the lock on e.
HolderRequest(c, e) ==
  /\ lastFrame'.type = "request_lock" /\ lastFrame'.ws = c /\ lastFrame'.elementId = e
  /\ Authenticated(c)
  /\ conns[c].workspaceId \in DOMAIN workspaceLocks
  /\ LockHolders(conns[c].workspaceId, e) = {conns[c].userId}

\* The lock on e is granted again to its holder with the next version.
Regranted(c, e) ==
  LET w == conns[c].workspaceId
      before == OMapGet(workspaceLocks[w], e)
      after == OMapGet(workspaceLocks'[w], e)
  IN /\ OMapHas(workspaceLocks'[w], e)
     /\ after.lockedBy = before.lockedBy
     /\ after.version = before.version + 1
     /\ Len(sent') >= 1
     /\ sent'[1].to = c
     /\ sent'[1].msg.type = "lock_granted"
     /\ sent'[1].msg.version = before.version + 1

\* C19 as stated: a request_lock from the user that holds the lock on the
\* element is granted; the holder stays the same and the version is the
\* previous version plus one.
C19_Original ==
  [][\A c \in LockConns, e \in LockElements :
       HolderRequest(c, e) => Regranted(c, e)]_vars

\* C19 (amended): a request_lock from the holder of the lock is granted with
\* the same holder and the previous version plus one when the holder has the
\* edit permission for the element type when the frame is handled; when it
\* has lost that permission the request is answered with lock_denied, reason
\* forbidden, and the lock is unchanged.
C19_HolderRegrant ==
  [][\A c \in LockConns, e \in LockElements :
       HolderRequest(c, e) =>
         IF getUserPermissions(workspacePermissions, conns[c].workspaceId,
                               conns[c].userId)["canEditBlocks"]
         THEN Regranted(c, e)
         ELSE /\ workspaceLocks' = workspaceLocks
              /\ DeniedWith(c, e, Null)
              /\ sent'[1].msg.reason = "forbidden"]_vars

\* The holder has just been granted its own lock again, at version 2.
C19_Witness ==
  /\ lastFrame.type = "request_lock" /\ lastFrame.outcome = "granted"
  /\ Len(sent) >= 1 /\ sent[1].msg.type = "lock_granted" /\ sent[1].msg.version = 2
  /\ lastFrame.workspaceId \in DOMAIN workspaceLocks
  /\ OMapHas(workspaceLocks[lastFrame.workspaceId], lastFrame.elementId)
  /\ OMapGet(workspaceLocks[lastFrame.workspaceId], lastFrame.elementId)
       = [lockedBy |-> lastFrame.userId, version |-> 2]

\* =========================================================================
\* SpecAuthFields: auth frames that carry the optional workspace and userId
\* fields, around a pending cleanup timer.
FieldConns == {"c1", "c2"}

FieldTickets ==
  {Ticket("u1", "w", "j1", 9, "TEACHER", "ok"),
   Ticket("u1", "w", "j2", 9, "TEACHER", "ok")}

\* <<workspace, userId>> of the frame.
FieldInputs ==
  {<<None, None>>, <<"w", "u1">>, <<" w2 ", None>>, <<None, " u2 ">>,
   <<"42", None>>, <<None, "42">>, <<"x129", None>>, <<None, "x129">>,
   <<"  ", "u1">>}

NextAuthFields ==
  \/ Tick
  \/ \E c \in FieldConns : Connect(c)
  \/ \E c \in FieldConns, t \in FieldTickets, f \in FieldInputs :
       AuthBegin(c, t, f[1], f[2])
  \/ \E a \in inflight : AuthVerify(a)
  \/ \E a \in inflight : AuthResume(a)
  \/ \E c \in FieldConns : Close(c)
  \/ \E w \in DOMAIN workspaceCleanupTimers : TimerFire(w)

SpecAuthFields == Init /\ [][NextAuthFields]_vars

\* The frame carries a workspace or userId field that is not the ticket's
\* workspaceId or sub claim.
FieldDiffers(a) ==
  \/ a.workspace # None /\ a.workspace # a.token.workspaceId
  \/ a.userId # None /\ a.userId # a.token.sub

\* C20 as stated: an auth frame whose workspace or userId field is present
\* and differs from the ticket's workspaceId or sub claim is rejected: the
\* connection is closed with code 4003, no member is added or replaced, no
\* cleanup timer is cancelled and the ticket's jti is not recorded as consumed.
C20_MismatchRejected ==
  [][\A a \in inflight :
       (ResumeStep(a) /\ FieldDiffers(a)) =>
         /\ lastFrame'.outcome = "rejected"
         /\ conns[a.ws].readyState = "OPEN" =>
              conns'[a.ws].readyState = "CLOSING" /\ conns'[a.ws].closeCode = 4003
         /\ workspaces' = workspaces
         /\ workspaceCleanupTimers' = workspaceCleanupTimers
         /\ a.token.jti \notin (DOMAIN consumedTicketIds') \ (DOMAIN consumedTicketIds)]_vars

\* The same for a field that is a string of at most 128 characters after
\* trimming and differs from the claim: such a frame is always rejected.
WellFormedMismatchRejected ==
  [][\A a \in inflight :
       (/\ ResumeStep(a)
        /\ \/ normalizeWorkspaceId(a.workspace) \notin {"", a.token.workspaceId}
           \/ normalizeUserId(a.userId) \notin {"", a.token.sub}) =>
         /\ lastFrame'.outcome = "rejected"
         /\ workspaces' = workspaces
         /\ workspaceCleanupTimers' = workspaceCleanupTimers
         /\ a.token.jti \notin (DOMAIN consumedTicketIds') \ (DOMAIN consumedTicketIds)]_vars

\* ------------------------------------------------------- the join secret
\* The environments a process can be started in: with a join secret, with
\* only the shared cron secret, with a blank join secret, and with neither
\* variable set, in production and in development.
Environments ==
  {ConfiguredEnv,
   [COLAB_JOIN_TOKEN_SECRET |-> None, CRON_SECRET |-> "ok", NODE_ENV |-> "production"],
   [COLAB_JOIN_TOKEN_SECRET |-> "  ", CRON_SECRET |-> None, NODE_ENV |-> "production"],
   [COLAB_JOIN_TOKEN_SECRET |-> None, CRON_SECRET |-> None, NODE_ENV |-> "production"],
   [COLAB_JOIN_TOKEN_SECRET |-> None, CRON_SECRET |-> None, NODE_ENV |-> "development"]}

SecretConns == {"c1", "c2"}

\* Well-formed tickets signed with the secret of ConfiguredEnv, with the
\* development secret and with the empty secret.
SecretTickets ==
  {Ticket("u1", "w", "j1", 9, "TEACHER", "ok"),
   Ticket("u1", "w", "j2", 9, "TEACHER", "dev-colab-join-secret"),
   Ticket("u2", "w", "j3", 9, "STUDENT", "")}

InitSecret == \E e \in Environments : InitEnv(e)

NextSecret ==
  \/ Tick
  \/ \E c \in SecretConns : Connect(c)
  \/ \E c \in SecretConns : AuthMissing(c)
  \/ \E c \in SecretConns, t \in SecretTickets : AuthBegin(c, t, None, None)
  \/ \E a \in inflight : AuthVerify(a)
  \/ \E a \in inflight : AuthResume(a)
  \/ \E c \in SecretConns : Close(c)
  \/ \E w \in Workspaces : TimerFire(w)

SpecSecret == InitSecret /\ [][NextSecret]_vars

\* Neither COLAB_JOIN_TOKEN_SECRET nor CRON_SECRET is set and NODE_ENV is
\* production.
NoSecretInProduction ==
  /\ env.NODE_ENV = "production"
  /\ env.COLAB_JOIN_TOKEN_SECRET = None
  /\ env.CRON_SECRET = None

\* The step completes an auth frame (with or without a token).
AuthFrameStep == lastFrame'.type = "auth"

\* C21: in production with neither COLAB_JOIN_TOKEN_SECRET nor CRON_SECRET
\* set, every auth frame is rejected, its socket (unless the peer has closed
\* it already) is closing with code 4003, and no workspace ever has a member.
C21_NoSecretRejectsAll ==
  /\ [](NoSecretInProduction => workspaces = EmptyMap)
  /\ [][NoSecretInProduction /\ AuthFrameStep =>
          /\ lastFrame'.outcome = "rejected"
          /\ ~conns'[lastFrame'.ws].isAuthenticated
          /\ conns[lastFrame'.ws].readyState # "CLOSED" =>
                /\ conns'[lastFrame'.ws].readyState = "CLOSING"
                /\ conns'[lastFrame'.ws].closeCode = 4003]_vars

\* A ticket signed with the development secret, unexpired and never used, has
\* been rejected in production with no secret set.
C21_Witness ==
  /\ NoSecretInProduction
  /\ lastFrame.type = "auth"
  /\ lastFrame.jti = "j2"
  /\ lastFrame.outcome = "rejected"
  /\ "j2" \notin DOMAIN consumedTicketIds
  /\ conns[lastFrame.ws].closeCode = 4003
  /\ sent = <<Send(lastFrame.ws, ErrorFrame("Invalid or expired join ticket"))>>

\* --------------------------------------------------- workspace isolation
\* Two sockets and two workspaces: c1 holds tickets of u1 for w and for w2,
\* c2 a ticket of u2 for w.
IsolationConns == {"c1", "c2"}

IsolationLogins ==
  {<<"c1", Ticket("u1", "w", "j1", 9, "TEACHER", "ok")>>,
   <<"c1", Ticket("u1", "w2", "j2", 9, "TEACHER", "ok")>>,
   <<"c2", Ticket("u2", "w", "j3", 9, "TEACHER", "ok")>>}

NextIsolation ==
  \/ \E c \in IsolationConns : Connect(c)
  \/ \E p \in IsolationLogins : AuthBegin(p[1], p[2], None, None)
  \/ \E a \in inflight : AuthVerify(a)
  \/ \E a \in inflight : AuthResume(a)
  \/ \E c \in IsolationConns : Close(c)
  \/ \E c \in IsolationConns : RequestLock(c, "b1", "block")

SpecIsolation == Init /\ [][NextIsolation]_vars

\* The state the server keeps for workspace w (None where it keeps nothing).
WorkspaceStateOf(w, wss, locks, shared, wp) ==
  <<IF w \in DOMAIN wss THEN wss[w] ELSE None,
    IF w \in DOMAIN locks THEN locks[w] ELSE None,
    IF w \in DOMAIN shared THEN shared[w] ELSE None,
    IF w \in DOMAIN wp THEN wp[w] ELSE None>>

\* The step handles a non-auth frame of a connection admitted to workspace w.
FrameStepIn(w) ==
  /\ lastFrame'.type \in NonAuthFrameTypes
  /\ Authenticated(lastFrame'.ws)
  /\ conns[lastFrame'.ws].workspaceId = w

\* C22: a frame handled for a connection admitted to workspace w changes the
\* state of no other workspace, and every frame it produces goes to a
\* connection whose current admission is to w.
C22_WorkspacesIsolated ==
  [][\A w \in {"w", "w2"} :
       FrameStepIn(w) =>
         /\ \A o \in {"w", "w2"} \ {w} :
              WorkspaceStateOf(o, workspaces', workspaceLocks',
                               workspaceSharedState', workspacePermissions')
              = WorkspaceStateOf(o, workspaces, workspaceLocks,
                                 workspaceSharedState, workspacePermissions)
         /\ \A i \in 1..Len(sent') :
              /\ conns[sent'[i].to].isAuthenticated
              /\ conns[sent'[i].to].workspaceId = w]_vars

\* ------------------------------------------------ preset mode, per member
\* The set the presentation preset describes: canView only.
PresentationSet == [k \in PERMISSION_KEYS |-> k = "canView"]

\* Socket ws is sent the permissions_updated frame of the presentation preset.
PresentationSentTo(ws) ==
  \E i \in 1..Len(sent') :
    /\ sent'[i].to = ws
    /\ sent'[i].msg.type = "permissions_updated"
    /\ sent'[i].msg.source = "preset_update"
    /\ sent'[i].msg.mode = "presentation"
    /\ sent'[i].msg.permissions = PresentationSet

\* C23: after an authorized apply_preset_mode{mode: presentation} every member
\* of the workspace whose socket is open, the sender included, is sent
\* permissions_updated with source preset_update, the mode, and the set in
\* which canView is true and every other key is false.
C23_PresetReachesEveryMember ==
  [][lastFrame'.type = "apply_preset_mode" /\ lastFrame'.mode = "presentation"
       /\ lastFrame'.outcome = "applied" =>
     \A ws \in OpenMemberSockets(conns, workspaces, lastFrame'.workspaceId) :
       PresentationSentTo(ws)]_vars

\* ----------------------------------------------------- presence on admission
\* Three sockets; two tickets of u1 and one of u2, each usable on any socket,
\* so that a user id is admitted again on another socket and on the same one.
PresenceConns == {"c1", "c2", "c3"}

PresenceTickets ==
  {Ticket("u1", "w", "j1", 9, "TEACHER", "ok"),
   Ticket("u1", "w", "j2", 9, "TEACHER", "ok"),
   Ticket("u2", "w", "j3", 9, "STUDENT", "ok")}

NextPresence ==
  \/ \E c \in PresenceConns : Connect(c)
  \/ \E c \in PresenceConns, t \in PresenceTickets : AuthBegin(c, t, None, None)
  \/ \E a \in inflight : AuthVerify(a)
  \/ \E a \in inflight : AuthResume(a)
  \/ \E c \in PresenceConns : Close(c)

SpecPresence == Init /\ [][NextPresence]_vars

\* The step admits lastFrame'.userId to lastFrame'.workspaceId.
AdmissionStep == lastFrame'.type = "auth" /\ lastFrame'.outcome \in {"joined", "replaced"}

\* The user id admitted by the step had an entry in the member map.
AlreadyPresent ==
  /\ lastFrame'.workspaceId \in DOMAIN workspaces
  /\ OMapHas(workspaces[lastFrame'.workspaceId], lastFrame'.userId)

\* The socket in the slot of the admitted user id before the step.
PreviousSocket == OMapGet(workspaces[lastFrame'.workspaceId], lastFrame'.userId).ws

\* The open sockets of the members other than the admitted user id.
OtherOpenSockets ==
  LET members == workspaces'[lastFrame'.workspaceId]
  IN {members[i][2].ws :
        i \in {j \in 1..Len(members) :
                 /\ members[j][1] # lastFrame'.userId
                 /\ conns'[members[j][2].ws].readyState = "OPEN"}}

\* The presence frames of the step about the admitted user id sent to ws.
PresenceSentTo(ws, type) ==
  Len(SelectSeq(sent', LAMBDA s : /\ s.to = ws /\ s.msg.type = type
                                   /\ s.msg.userId = lastFrame'.userId))

PresenceBroadcast(type) ==
  /\ \A ws \in OtherOpenSockets : PresenceSentTo(ws, type) = 1
  /\ \A i \in 1..Len(sent') :
       sent'[i].msg.type \notin ({"user_joined", "user_updated", "user_left"} \ {type})

\* C24 as stated: an admission of a user id that was not present sends
\* user_joined to the other members; an admission of a user id that was
\* present sends them user_updated, no user_joined and no user_left, and
\* leaves the socket that held the slot closing with code 4001.
C24_Original ==
  [][AdmissionStep =>
       IF ~AlreadyPresent
       THEN lastFrame'.outcome = "joined" /\ PresenceBroadcast("user_joined")
       ELSE /\ lastFrame'.outcome = "replaced"
            /\ PresenceBroadcast("user_updated")
            /\ conns[PreviousSocket].readyState = "OPEN" =>
                 /\ conns'[PreviousSocket].readyState = "CLOSING"
                 /\ conns'[PreviousSocket].closeCode = 4001]_vars

\* C24: an admission of a user id that was not present sends user_joined to
\* every other member whose socket is open; an admission of a user id that was
\* present sends them user_updated, sends no user_joined and no user_left, and
\* closes the socket that held the slot with code 4001 when that socket is
\* open and is not the socket the auth frame arrived on, which stays open.
C24_PresenceOnAdmission ==
  [][AdmissionStep =>
       IF ~AlreadyPresent
       THEN lastFrame'.outcome = "joined" /\ PresenceBroadcast("user_joined")
       ELSE /\ lastFrame'.outcome = "replaced"
            /\ PresenceBroadcast("user_updated")
            /\ IF PreviousSocket = lastFrame'.ws
               THEN conns'[PreviousSocket].readyState = conns[PreviousSocket].readyState
               ELSE conns[PreviousSocket].readyState = "OPEN" =>
                      /\ conns'[PreviousSocket].readyState = "CLOSING"
                      /\ conns'[PreviousSocket].closeCode = 4001]_vars

\* u1 has just been admitted again on a second socket while u2 is a member
\* with an open socket: the first socket is closing with 4001 and u2 was sent
\* user_updated.
C24_Witness ==
  /\ lastFrame.type = "auth" /\ lastFrame.outcome = "replaced"
  /\ lastFrame.userId = "u1"
  /\ \E old \in PresenceConns \ {lastFrame.ws} :
       conns[old].readyState = "CLOSING" /\ conns[old].closeCode = 4001
  /\ OMapHas(workspaces["w"], "u2")
  /\ \E i \in 1..Len(sent) :
       /\ sent[i].to = OMapGet(workspaces["w"], "u2").ws
       /\ sent[i].msg.type = "user_updated"

\* ------------------------------------------- locks and the edit permission
\* An ADMIN and a STUDENT; the work preset gives the STUDENT canEditBlocks and
\* canEditSprites but not canEditVariables.
LockPermLogins ==
  {<<"c1", Ticket("u1", "w", "j1", 9, "ADMIN", "ok")>>,
   <<"c2", Ticket("u2", "w", "j2", 9, "STUDENT", "ok")>>}

\* The elementId of a request_lock ("" when absent or not a string) and its
\* elementType.
LockPermIds == {"b1", ""}
LockPermTypes == {"block", "sprite", "variable"}

NextLockPerm ==
  \/ \E c \in {"c1", "c2"} : Connect(c)
  \/ \E p \in LockPermLogins : AuthBegin(p[1], p[2], None, None)
  \/ \E a \in inflight : AuthVerify(a)
  \/ \E a \in inflight : AuthResume(a)
  \/ \E c \in {"c1", "c2"} : ApplyPresetMode(c, "work")
  \/ \E c \in {"c1", "c2"}, e \in LockPermIds, t \in LockPermTypes : RequestLock(c, e, t)

SpecLockPerm == Init /\ [][NextLockPerm]_vars

\* The edit permission of an element type.
EditKeyOfType(elementType) ==
  CASE elementType = "block" -> "canEditBlocks"
    [] elementType = "sprite" -> "canEditSprites"
    [] elementType = "variable" -> "canEditVariables"

\* The step handles a request_lock that names an element, sent by a member
\* whose effective permission set lacks the edit permission of its type.
ForbiddenRequest ==
  /\ lastFrame'.type = "request_lock"
  /\ lastFrame'.elementId # ""
  /\ Authenticated(lastFrame'.ws)
  /\ lastFrame'.workspaceId \in DOMAIN workspaces
  /\ OMapHas(workspaces[lastFrame'.workspaceId], lastFrame'.userId)
  /\ ~getUserPermissions(workspacePermissions, lastFrame'.workspaceId,
                         lastFrame'.userId)[EditKeyOfType(lastFrame'.elementType)]

\* C25: a request_lock naming an element, from a member who lacks the edit
\* permission of the element type, is answered with lock_denied{lockedBy:
\* null, reason: forbidden} and nothing else is sent; the lock table is
\* unchanged, whether or not the element is locked.
C25_ForbiddenDenied ==
  [][ForbiddenRequest =>
       /\ sent' = <<Send(lastFrame'.ws,
                         [Frame EXCEPT !.type = "lock_denied",
                                       !.elementId = lastFrame'.elementId,
                                       !.lockedBy = Null, !.reason = "forbidden"])>>
       /\ workspaceLocks' = workspaceLocks]_vars

\* Under the work preset the STUDENT u2 has just been refused a variable lock
\* on b1 with reason forbidden while the ADMIN u1 holds the lock on b1.
C25_Witness ==
  /\ lastFrame.type = "request_lock" /\ lastFrame.outcome = "forbidden"
  /\ lastFrame.userId = "u2" /\ lastFrame.elementType = "variable"
  /\ hasPermission(workspacePermissions, "w", "u2", "canEditBlocks")
  /\ OMapHas(workspaceLocks["w"], "b1")
  /\ OMapGet(workspaceLocks["w"], "b1").lockedBy = "u1"
  /\ sent[1].msg.lockedBy = Null

\* ------------------------------------------------ mutations of locked elements
\* Two TEACHER members; u1 locks the element id e1 (locks are keyed by the id
\* alone), and both members move the block e1 and the sprite e1.
LockedEditLogins ==
  {<<"c1", Ticket("u1", "w", "j1", 9, "TEACHER", "ok")>>,
   <<"c2", Ticket("u2", "w", "j2", 9, "TEACHER", "ok")>>}

NextLockedEdit ==
  \/ \E c \in {"c1", "c2"} : Connect(c)
  \/ \E p \in LockedEditLogins : AuthBegin(p[1], p[2], None, None)
  \/ \E a \in inflight : AuthVerify(a)
  \/ \E a \in inflight : AuthResume(a)
  \/ RequestLock("c1", "e1", "block")
  \/ \E c \in {"c1", "c2"} : BlockMove(c, "e1", "1", NoEtag)
  \/ \E c \in {"c1", "c2"} : SpriteUpdate(c, "e1", "1", NoEtag)

SpecLockedEdit == Init /\ [][NextLockedEdit]_vars

\* The step handles a block_move or sprite_update of an authenticated sender.
MoveStep ==
  /\ lastFrame'.type \in {"block_move", "sprite_update"}
  /\ Authenticated(lastFrame'.ws)

\* The holder of the lock on the element of the frame (None: no lock).
FrameLockHolder ==
  LET w == lastFrame'.workspaceId
  IN IF w \in DOMAIN workspaceLocks /\ OMapHas(workspaceLocks[w], lastFrame'.elementId)
     THEN OMapGet(workspaceLocks[w], lastFrame'.elementId).lockedBy
     ELSE None

\* C26: a block_move or sprite_update for an element whose lock is held by a
\* user other than the sender changes neither the shared state nor the lock
\* table and sends nothing; when the element has no lock the frame is not
\* refused for want of a lock: a sender with the edit permission and without
\* If-Match has it applied.
C26_LockedElsewhereDropped ==
  [][MoveStep =>
       /\ FrameLockHolder \notin {None, lastFrame'.userId} =>
            /\ workspaceSharedState' = workspaceSharedState
            /\ workspaceLocks' = workspaceLocks
            /\ sent' = << >>
            /\ lastFrame'.outcome \in {"locked", "forbidden"}
       /\ FrameLockHolder = None =>
            lastFrame'.outcome = "applied"]_vars

\* u2 has just had a sprite_update of e1 dropped while u1 holds the lock on
\* e1 and both sockets are open.
C26_Witness ==
  /\ lastFrame.type = "sprite_update" /\ lastFrame.outcome = "locked"
  /\ lastFrame.userId = "u2"
  /\ OMapHas(workspaceLocks["w"], "e1")
  /\ OMapGet(workspaceLocks["w"], "e1").lockedBy = "u1"
  /\ AllMembersOpen("w", 2)
  /\ sent = << >>

\* ------------------------------------------------------ delete, then create
\* The entity <<workspace, kind, id>> the frame of the step names.
FrameEntity == <<lastFrame'.workspaceId, lastFrame'.elementType, lastFrame'.elementId>>

FrameApplied(type) == lastFrame'.type = type /\ lastFrame'.outcome = "applied"

\* C27: an applied delete_element leaves the entity absent from the shared
\* state, and for a sprite its sprite-metrics entry and its workspace
\* snapshot too; a create_element of an entity that is absent stores it at
\* version 1 with the sender as firstEditedBy.
C27_DeleteThenCreate ==
  [][/\ FrameApplied("delete_element") =>
          LET stored == DOMAIN StoredEntities(workspaceSharedState')
              w == lastFrame'.workspaceId
              id == lastFrame'.elementId
          IN /\ FrameEntity \notin stored
             /\ lastFrame'.elementType = "sprite" =>
                  /\ <<w, "sprite-metrics", id>> \notin stored
                  /\ <<w, "workspace-snapshot", id>> \notin stored
     /\ /\ FrameApplied("create_element")
        /\ FrameEntity \notin DOMAIN StoredEntities(workspaceSharedState)
        => LET created == StoredEntities(workspaceSharedState')[FrameEntity]
           IN /\ created.version = 1
              /\ created.firstEditedBy = lastFrame'.userId
              /\ created.etag = buildEntityEtag(<<lastFrame'.elementType,
                                                  lastFrame'.elementId>>, 1)]_vars

\* The sprite s1 was created with metrics, deleted (its metrics, once
\* broadcast, are gone) and has just been created again by u2 at version 1.
C27_Witness ==
  /\ lastFrame.type = "create_element" /\ lastFrame.outcome = "applied"
  /\ lastFrame.userId = "u2"
  /\ <<"w", "sprite-metrics", "s1">> \in DOMAIN published
  /\ published[<<"w", "sprite-metrics", "s1">>].ever = 1
  /\ <<"w", "sprite-metrics", "s1">> \notin DOMAIN StoredEntities(workspaceSharedState)
  /\ <<"w", "sprite", "s1">> \in DOMAIN StoredEntities(workspaceSharedState)
  /\ StoredEntities(workspaceSharedState)[<<"w", "sprite", "s1">>].version = 1
  /\ StoredEntities(workspaceSharedState)[<<"w", "sprite", "s1">>].firstEditedBy = "u2"

\* ------------------------------------------------- first-edited metadata
\* C28: an entity that is stored before and after a step has the same
\* firstEditedBy and firstEditedAt after it, whichever member sent the frame
\* and whichever operation the step is.
C28_FirstEditedSticky ==
  [][LET before == StoredEntities(workspaceSharedState)
         after == StoredEntities(workspaceSharedState')
     IN \A e \in (DOMAIN before) \cap (DOMAIN after) :
          /\ after[e].firstEditedBy = before[e].firstEditedBy
          /\ after[e].firstEditedAt = before[e].firstEditedAt]_vars

\* The sprite metrics of s1, first edited by u1 at time 1, have just been
\* rewritten by a sprite_update of u2 at time 2.
C28_Witness ==
  /\ lastFrame.type = "sprite_update" /\ lastFrame.outcome = "applied"
  /\ lastFrame.userId = "u2"
  /\ now = 2
  /\ <<"w", "sprite-metrics", "s1">> \in DOMAIN StoredEntities(workspaceSharedState)
  /\ LET metrics == StoredEntities(workspaceSharedState)[<<"w", "sprite-metrics", "s1">>]
     IN /\ metrics.firstEditedBy = "u1" /\ metrics.firstEditedAt = 1
        /\ metrics.updatedBy = "u2" /\ metrics.updatedAt = 2
        /\ metrics.version >= 2

\* --------------------------------------------------- request_teacher_role
\* u1 is admitted as TEACHER or ADMIN on c1, u2 as STUDENT or PARENT on c2;
\* canDraw of either member is switched off per user before the role request.
RoleLogins ==
  {<<"c1", Ticket("u1", "w", "j1", 9, "TEACHER", "ok")>>,
   <<"c1", Ticket("u1", "w", "j2", 9, "ADMIN", "ok")>>,
   <<"c2", Ticket("u2", "w", "j3", 9, "STUDENT", "ok")>>,
   <<"c2", Ticket("u2", "w", "j4", 9, "PARENT", "ok")>>}

NextRole ==
  \/ \E c \in {"c1", "c2"} : Connect(c)
  \/ \E p \in RoleLogins : AuthBegin(p[1], p[2], None, None)
  \/ \E a \in inflight : AuthVerify(a)
  \/ \E a \in inflight : AuthResume(a)
  \/ \E c \in {"c1", "c2"}, u \in Users : UpdateUserPermission(c, u, "canDraw", "false")
  \/ \E c \in {"c1", "c2"} : RequestTeacherRole(c)

SpecRole == Init /\ [][NextRole]_vars

\* The step handles a request_teacher_role whose sender is a member.
RoleRequestOfMember ==
  /\ lastFrame'.type = "request_teacher_role"
  /\ Authenticated(lastFrame'.ws)
  /\ lastFrame'.workspaceId \in DOMAIN workspaces
  /\ OMapHas(workspaces[lastFrame'.workspaceId], lastFrame'.userId)

\* The role of the member that sent the frame.
RequesterRole == OMapGet(workspaces[lastFrame'.workspaceId], lastFrame'.userId).role

\* The template of a role that may request it.
RoleTemplate(role) ==
  IF role = "ADMIN" THEN [k \in PERMISSION_KEYS |-> TRUE] ELSE getTeacherPermissions

\* C29: a request_teacher_role of a STUDENT or PARENT member is answered with
\* an error frame and nothing else is sent, and the member map and the
\* permission state of every workspace are unchanged; of an ADMIN or TEACHER
\* member it sets the per-user entry of the sender to the template of the
\* role and changes no other entry and not the global set.
C29_RoleRequest ==
  [][RoleRequestOfMember =>
       LET w == lastFrame'.workspaceId
           u == lastFrame'.userId
       IN IF RequesterRole \in {"STUDENT", "PARENT"}
          THEN /\ sent' = <<Send(lastFrame'.ws, ErrorFrame("Role escalation denied"))>>
               /\ workspacePermissions' = workspacePermissions
               /\ workspaces' = workspaces
          ELSE /\ u \in DOMAIN workspacePermissions'[w].userPermissions
               /\ workspacePermissions'[w].userPermissions[u] = RoleTemplate(RequesterRole)
               /\ workspacePermissions'[w].globalPermissions
                  = workspacePermissions[w].globalPermissions
               /\ \A o \in DOMAIN workspacePermissions'[w].userPermissions \ {u} :
                    /\ o \in DOMAIN workspacePermissions[w].userPermissions
                    /\ workspacePermissions'[w].userPermissions[o]
                       = workspacePermissions[w].userPermissions[o]]_vars

\* The STUDENT u2, who has a per-user entry, has just been refused while u1
\* is connected.
C29_Witness ==
  /\ lastFrame.type = "request_teacher_role" /\ lastFrame.outcome = "denied"
  /\ lastFrame.userId = "u2"
  /\ OMapGet(workspaces["w"], "u2").role = "STUDENT"
  /\ "u2" \in DOMAIN workspacePermissions["w"].userPermissions
  /\ AllMembersOpen("w", 2)
  /\ sent = <<Send(lastFrame.ws, ErrorFrame("Role escalation denied"))>>

\* -------------------------------------------------- one frame, one step
\* The sockets a broadcast of the sender of the frame reaches: the open
\* sockets of the other member entries.
RecipientsOf(w, senderId) ==
  IF w \notin DOMAIN workspaces THEN {}
  ELSE {workspaces[w][i][2].ws :
          i \in {j \in 1..Len(workspaces[w]) :
                   /\ workspaces[w][j][1] # senderId
                   /\ conns[workspaces[w][j][2].ws].readyState = "OPEN"}}

\* Every version a frame carries is the version the store has after the step.
CarriesCommitted(w, msg) ==
  \A p \in FrameVersions(w, msg) :
    /\ p[1] \in DOMAIN StoredEntities(workspaceSharedState')
    /\ StoredEntities(workspaceSharedState')[p[1]].version = p[2]

\* C30: a mutation frame is handled in one step that suspends no handler:
\* the step that commits the write also hands every open socket of the other
\* members exactly one frame, which carries the versions just committed, so
\* each recipient is sent a sender's frames in the order of its commits.
C30_FrameAtomic ==
  [][lastFrame'.type \in MutationTypes /\ lastFrame'.outcome = "applied" =>
       LET w == lastFrame'.workspaceId
       IN /\ inflight' = inflight
          /\ {sent'[i].to : i \in 1..Len(sent')} = RecipientsOf(w, lastFrame'.userId)
          /\ \A ws \in RecipientsOf(w, lastFrame'.userId) : Len(SentTo(ws)') = 1
          /\ \A i \in 1..Len(sent') :
               /\ sent'[i].msg.userId = lastFrame'.userId
               /\ CarriesCommitted(w, sent'[i].msg)
               /\ lastFrame'.type # "delete_element" => FrameVersions(w, sent'[i].msg) # {}
          /\ WrittenEntities # {} =>
               \A e \in WrittenEntities :
                 \A i \in 1..Len(sent') :
                   e[2] \in {"block", "sprite-metrics", "workspace-snapshot"} \/
                   lastFrame'.type = "create_element" =>
                     \E p \in FrameVersions(w, sent'[i].msg) : p[1] = e]_vars

\* While an auth handler of c2 is suspended in its await, a block_move of u1
\* has been committed at version 2 and sent to c2 in the same step.
C30_Witness ==
  /\ lastFrame.type = "block_move" /\ lastFrame.outcome = "applied"
  /\ lastFrame.userId = "u1"
  /\ \E a \in inflight : a.ws = "c2" /\ a.phase = "verifying"
  /\ Len(sent) = 1 /\ sent[1].to = "c2" /\ sent[1].msg.version = 2
  /\ StoredEntities(workspaceSharedState)[<<"w", "block", "b1">>].version = 2

\* ----------------------------------------------- a send that fails
\* Three TEACHER members, one per socket; the transport of any of them may
\* fail before a lock request of another is broadcast.
BroadcastLogins ==
  {<<"c1", Ticket("u1", "w", "j1", 9, "TEACHER", "ok")>>,
   <<"c2", Ticket("u2", "w", "j2", 9, "TEACHER", "ok")>>,
   <<"c3", Ticket("u3", "w", "j3", 9, "TEACHER", "ok")>>}

NextBroadcast ==
  \/ \E c \in Conns : Connect(c)
  \/ \E p \in BroadcastLogins : AuthBegin(p[1], p[2], None, None)
  \/ \E a \in inflight : AuthVerify(a)
  \/ \E a \in inflight : AuthResume(a)
  \/ \E c \in Conns : TransportError(c)
  \/ \E c \in Conns : RequestLock(c, "b1", "block")

SpecBroadcast == Init /\ [][NextBroadcast]_vars

\* The open sockets with a working transport of the members other than the
\* sender of the frame of the step.
WritableRecipients ==
  LET w == lastFrame'.workspaceId
  IN {workspaces[w][i][2].ws :
        i \in {j \in 1..Len(workspaces[w]) :
                 /\ workspaces[w][j][1] # lastFrame'.userId
                 /\ conns[workspaces[w][j][2].ws].readyState = "OPEN"
                 /\ conns[workspaces[w][j][2].ws].transport = "ok"}}

RecreateLogins ==
  {<<"c1", Ticket("u1", "w", "j1", 9, "TEACHER", "ok")>>,
   <<"c2", Ticket("u1", "w", "j2", 9, "TEACHER", "ok")>>,
   <<"c3", Ticket("u2", "w", "j3", 9, "STUDENT", "ok")>>}

NextRecreate ==
  \/ Tick
  \/ \E c \in Conns : Connect(c)
  \/ \E p \in RecreateLogins : AuthBegin(p[1], p[2], None, None)
  \/ \E a \in inflight : AuthVerify(a)
  \/ \E a \in inflight : AuthResume(a)
  \/ \E c \in Conns : Close(c)
  \/ \E w \in DOMAIN workspaceCleanupTimers : TimerFire(w)
  \/ \E c \in Conns :
       CreateElement(c, "block", RecordData("b1", Undefined, "1"), "", NoEtag)

SpecRecreate == Init /\ [][NextRecreate]_vars

\* The step admits a member into a workspace that has no member map.
CreationStep ==
  /\ lastFrame'.type = "auth" /\ lastFrame'.outcome \in {"joined", "replaced"}
  /\ lastFrame'.workspaceId \notin DOMAIN workspaces

\* C32: after the admission that creates a workspace, its global permission
\* set is canView and canChat only, the only per-user entry is the one the
\* admission gave the admitted user, and its lock map and its shared state
\* are empty.
C32_CreatedEmpty ==
  [][CreationStep =>
       LET w == lastFrame'.workspaceId
       IN /\ workspacePermissions'[w].globalPermissions
             = [k \in PERMISSION_KEYS |-> k \in {"canView", "canChat"}]
          /\ DOMAIN workspacePermissions'[w].userPermissions \subseteq {lastFrame'.userId}
          /\ workspaceLocks'[w] = << >>
          /\ workspaceSharedState'[w] = EmptySharedState]_vars

\* --------------------------------------------------- holders and members
\* C33: the holder of every lock of a workspace has an entry in the member
\* map of that workspace.
C33_HolderIsMember ==
  \A w \in DOMAIN workspaceLocks :
    \A i \in 1..Len(workspaceLocks[w]) :
      /\ w \in DOMAIN workspaces
      /\ OMapHas(workspaces[w], workspaceLocks[w][i][2].lockedBy)

\* ------------------------------------------- members and closed sockets
\* C34: no entry of a member map points to a socket whose close event has
\* been handled.
C34_NoClosedMember ==
  \A w \in DOMAIN workspaces :
    \A i \in 1..Len(workspaces[w]) :
      conns[workspaces[w][i][2].ws].readyState # "CLOSED"

\* ------------------------------------------------ a lock changing hands
\* u1 on c1, then on c2 (a take-over), and u2 on c3; the lock on b1 is
\* requested and released, the members leave and the cleanup timer fires.
HandoverLogins ==
  {<<"c1", Ticket("u1", "w", "j1", 9, "TEACHER", "ok")>>,
   <<"c2", Ticket("u1", "w", "j2", 9, "TEACHER", "ok")>>,
   <<"c3", Ticket("u2", "w", "j3", 9, "TEACHER", "ok")>>}

NextHandover ==
  \/ Tick
  \/ \E c \in Conns : Connect(c)
  \/ \E p \in HandoverLogins : AuthBegin(p[1], p[2], None, None)
  \/ \E a \in inflight : AuthVerify(a)
  \/ \E a \in inflight : AuthResume(a)
  \/ \E c \in Conns : Close(c)
  \/ \E w \in DOMAIN workspaceCleanupTimers : TimerFire(w)
  \/ \E c \in Conns : RequestLock(c, "b1", "block")
  \/ \E c \in Conns : ReleaseLock(c, "b1")

SpecHandover == Init /\ [][NextHandover]_vars

\* The lock map of workspace w has a lock on element e held by user u.
HeldBy(locks, w, e, u) ==
  /\ w \in DOMAIN locks
  /\ \E i \in 1..Len(locks[w]) : locks[w][i][1] = e /\ locks[w][i][2].lockedBy = u

\* The step handled release_lock{elementId: e} sent by user u in workspace w.
ReleasedBy(w, e, u) ==
  /\ lastFrame'.type = "release_lock"
  /\ lastFrame'.elementId = e
  /\ lastFrame'.userId = u
  /\ lastFrame'.workspaceId = w

\* The step handled the close event of a connection of user u in workspace w
\* that had not been replaced.
ClosedNotReplaced(w, u) ==
  /\ lastFrame'.type = "close"
  /\ lastFrame'.userId = u
  /\ lastFrame'.workspaceId = w
  /\ lastFrame'.outcome # "skipped"

\* C35: the lock on an element leaves its holder u1, so that another user can
\* become the holder, only in a step that handles release_lock from u1 or the
\* close of a connection of u1 that was not replaced; release_lock from a
\* user that is not the holder changes no lock and sends nothing.
C35_HolderChange ==
  [][ /\ \A w \in Workspaces, u \in Users :
           (HeldBy(workspaceLocks, w, "b1", u) /\ ~HeldBy(workspaceLocks', w, "b1", u))
             => (ReleasedBy(w, "b1", u) \/ ClosedNotReplaced(w, u))
      /\ \A c \in Conns :
           ( /\ lastFrame'.type = "release_lock" /\ lastFrame'.ws = c
             /\ ~HeldBy(workspaceLocks, conns[c].workspaceId, "b1", conns[c].userId) )
             => (workspaceLocks' = workspaceLocks /\ sent' = << >>) ]_vars

\* --------------------------------------------- stored permission sets
\* A teacher u1 and a student u2; every permission frame is sent, members
\* leave and are admitted again.
StoredLogins ==
  {<<"c1", Ticket("u1", "w", "j1", 9, "TEACHER", "ok")>>,
   <<"c2", Ticket("u2", "w", "j2", 9, "STUDENT", "ok")>>,
   <<"c3", Ticket("u2", "w", "j3", 9, "STUDENT", "ok")>>}

StoredModes == {"work", "bogus"}

NextStored ==
  \/ \E c \in Conns : Connect(c)
  \/ \E p \in StoredLogins : AuthBegin(p[1], p[2], None, None)
  \/ \E a \in inflight : AuthVerify(a)
  \/ \E a \in inflight : AuthResume(a)
  \/ \E c \in Conns : Close(c)
  \/ \E c \in Conns, v \in {"true", "false"} : UpdateGlobalPermission(c, "canDraw", v)
  \/ \E c \in Conns, v \in {"true", "false"} : UpdateUserPermission(c, "u2", "canDraw", v)
  \/ \E c \in Conns, m \in StoredModes : ApplyPresetMode(c, m)
  \/ \E c \in Conns : RequestTeacherRole(c)

SpecStored == Init /\ [][NextStored]_vars

\* C36: in every state, the permission set read from the entry of each member
\* equals the set the resolver returns for that member.
C36_StoredEqualsEffective ==
  \A w \in DOMAIN workspaces :
    \A i \in 1..Len(workspaces[w]) :
      ClientPermissions(workspacePermissions, w, workspaces[w][i][2])
        = getUserPermissions(workspacePermissions, w, workspaces[w][i][1])

\* The student u2 is a member with a per-user set that differs from the
\* global set, after update_user_permission created it.
C36_Witness ==
  /\ lastFrame.type = "update_user_permission" /\ lastFrame.outcome = "applied"
  /\ "w" \in DOMAIN workspaces /\ OMapHas(workspaces["w"], "u2")
  /\ "u2" \in DOMAIN workspacePermissions["w"].userPermissions
  /\ workspacePermissions["w"].userPermissions["u2"]
       # workspacePermissions["w"].globalPermissions
  /\ ClientPermissions(workspacePermissions, "w", OMapGet(workspaces["w"], "u2"))
       = workspacePermissions["w"].userPermissions["u2"]

\* ------------------------------------- a revoked canChangePermissions
\* An ADMIN u1 and a TEACHER u2; canChangePermissions of u2 is switched per
\* user, either member requests its role template, and u2 leaves and is
\* admitted again on c3.
RevokeLogins ==
  {<<"c1", Ticket("u1", "w", "j1", 9, "ADMIN", "ok")>>,
   <<"c2", Ticket("u2", "w", "j2", 9, "TEACHER", "ok")>>,
   <<"c3", Ticket("u2", "w", "j3", 9, "TEACHER", "ok")>>}

NextRevoke ==
  \/ \E c \in Conns : Connect(c)
  \/ \E p \in RevokeLogins : AuthBegin(p[1], p[2], None, None)
  \/ \E a \in inflight : AuthVerify(a)
  \/ \E a \in inflight : AuthResume(a)
  \/ \E c \in Conns : Close(c)
  \/ \E c \in Conns, v \in {"true", "false"} :
       UpdateUserPermission(c, "u2", "canChangePermissions", v)
  \/ \E c \in Conns, v \in {"true", "false"} :
       UpdateGlobalPermission(c, "canChangePermissions", v)
  \/ \E c \in Conns : RequestTeacherRole(c)

SpecRevoke == Init /\ [][NextRevoke]_vars

\* User t has a per-user set in workspace w whose canChangePermissions is false.
Revoked(wp, w, t) ==
  /\ w \in DOMAIN wp
  /\ t \in DOMAIN wp[w].userPermissions
  /\ ~wp[w].userPermissions[t]["canChangePermissions"]

\* The effective canChangePermissions of user t in workspace w.
MayChange(wp, w, t) == getUserPermissions(wp, w, t)["canChangePermissions"]

\* The step handles update_user_permission for target t, sent by a user whose
\* effective canChangePermissions is true.
ChangedByHolder(w, t) ==
  /\ lastFrame'.type = "update_user_permission"
  /\ lastFrame'.workspaceId = w
  /\ lastFrame'.targetUserId = t
  /\ MayChange(workspacePermissions, w, lastFrame'.userId)

\* The step admits user t to workspace w.
AdmittedAgain(w, t) ==
  /\ AdmissionStep
  /\ lastFrame'.workspaceId = w
  /\ lastFrame'.userId = t

\* The step handles request_teacher_role sent by user t, whose member entry
\* has role ADMIN or TEACHER.
TemplateRequested(w, t) ==
  /\ lastFrame'.type = "request_teacher_role"
  /\ lastFrame'.workspaceId = w
  /\ lastFrame'.userId = t
  /\ w \in DOMAIN workspaces
  /\ OMapHas(workspaces[w], t)
  /\ OMapGet(workspaces[w], t).role \in {"ADMIN", "TEACHER"}

\* The original statement of C37: the effective canChangePermissions of a
\* user whose per-user set has it false becomes true only in a step that
\* handles update_user_permission from a user holding canChangePermissions,
\* or that admits the user again.
C37_Original ==
  [][ \A w \in Workspaces, t \in Users :
        (Revoked(workspacePermissions, w, t) /\ MayChange(workspacePermissions', w, t))
          => (ChangedByHolder(w, t) \/ AdmittedAgain(w, t)) ]_vars

\* C37: the effective canChangePermissions of a user whose per-user set has
\* it false becomes true only in a step that handles update_user_permission
\* from a user holding canChangePermissions, that admits the user again, or
\* that handles request_teacher_role from that user with role ADMIN or TEACHER.
C37_RevokedUntilRestored ==
  [][ \A w \in Workspaces, t \in Users :
        (Revoked(workspacePermissions, w, t) /\ MayChange(workspacePermissions', w, t))
          => (ChangedByHolder(w, t) \/ AdmittedAgain(w, t) \/ TemplateRequested(w, t)) ]_vars

\* u2, whose canChangePermissions was switched off, has just sent
\* update_user_permission for itself and it was ignored.
C37_Witness ==
  /\ lastFrame.type = "update_user_permission"
  /\ lastFrame.userId = "u2" /\ lastFrame.targetUserId = "u2"
  /\ lastFrame.value = "true"
  /\ lastFrame.outcome = "ignored"
  /\ Revoked(workspacePermissions, "w", "u2")
  /\ "w" \in DOMAIN workspaces /\ OMapHas(workspaces["w"], "u2")

\* ------------------------------------------- frames of a replaced socket
\* C38: a request_lock or release_lock frame handled on a socket that was marked
\* __skipCleanup by a take-over changes no member map, lock map, shared state
\* or permission state, and no frame is sent to another socket.
C38_ReplacedIsInert ==
  [][ \A c \in Conns :
        ( /\ conns[c].skipCleanup
          /\ lastFrame'.ws = c
          /\ lastFrame'.type \in {"request_lock", "release_lock"} )
          => /\ UNCHANGED <<workspaces, workspaceLocks, workspaceSharedState,
                            workspacePermissions>>
             /\ \A i \in 1..Len(sent') : sent'[i].to = c ]_vars

\* ------------------------------------------------- a mode that is no preset
\* C39: a step that handles apply_preset_mode with a mode other than
\* presentation, work, test and restricted leaves the global permission set
\* and the per-user sets of every workspace as they were.
C39_UnknownModeKeepsPermissions ==
  [][ ( /\ lastFrame'.type = "apply_preset_mode"
        /\ lastFrame'.mode \notin {"presentation", "work", "test", "restricted"} )
        => workspacePermissions' = workspacePermissions ]_vars

\* A member holding canChangePermissions has sent apply_preset_mode with mode
\* bogus while the global set was the work preset and u2 had a per-user set.
C39_Witness ==
  /\ lastFrame.type = "apply_preset_mode"
  /\ lastFrame.mode = "bogus"
  /\ lastFrame.outcome = "applied"
  /\ "w" \in DOMAIN workspacePermissions
  /\ workspacePermissions["w"].globalPermissions["canEditBlocks"]
  /\ workspacePermissions["w"].globalPermissions["canChat"]
  /\ "u2" \in DOMAIN workspacePermissions["w"].userPermissions

\* ------------------------------------------------ WebSocketClient: steps
\* The application calls connect().
ClientConnect ==
  /\ Len(wsClient.sockets) < MaxClientSockets
  /\ wsClient' = [connect(wsClient) EXCEPT !.disconnected = FALSE,
                  !.event = ClientEvent("connect", Len(wsClient.sockets) + 1, 0)]
  /\ UNCHANGED serverVars

\* ws.onopen of socket s: reconnectAttempts = 0, then the auth frame is sent.
ClientOnOpen(s) ==
  /\ wsClient.sockets[s] = "CONNECTING"
  /\ wsClient' = [wsClient EXCEPT !.sockets[s] = "OPEN", !.reconnectAttempts = 0,
                              !.event = ClientEvent("open", s, 0)]
  /\ UNCHANGED serverVars

\* ws.onmessage of socket s with an auth_success frame.
ClientOnAuthSuccess(s) ==
  /\ wsClient.sockets[s] \in {"OPEN", "CLOSING"}
  /\ wsClient' = [wsClient EXCEPT !.isAuthenticated = TRUE,
                              !.event = ClientEvent("auth_success", s, 0)]
  /\ UNCHANGED serverVars

\* ws.onclose of socket s.
ClientOnClose(s, code) ==
  /\ wsClient.sockets[s] # "CLOSED"
  /\ wsClient' = [onclose(wsClient, s, code) EXCEPT !.event = ClientEvent("close", s, code)]
  /\ UNCHANGED serverVars

\* A reconnect timer fires: this.connect(token, workspaceId, username, userId).
ClientReconnectTimer ==
  /\ wsClient.timers > 0
  /\ Len(wsClient.sockets) < MaxClientSockets
  /\ wsClient' = [connect(wsClient) EXCEPT !.timers = wsClient.timers - 1,
                  !.event = ClientEvent("reconnect_timer", Len(wsClient.sockets) + 1, 0)]
  /\ UNCHANGED serverVars

\* The application calls disconnect().
ClientDisconnect ==
  /\ wsClient' = [disconnect(wsClient) EXCEPT !.disconnected = TRUE,
                  !.event = ClientEvent("disconnect", wsClient.ws, 0)]
  /\ UNCHANGED serverVars

NextClient ==
  \/ ClientConnect
  \/ \E s \in DOMAIN wsClient.sockets : ClientOnOpen(s)
  \/ \E s \in DOMAIN wsClient.sockets : ClientOnAuthSuccess(s)
  \/ \E s \in DOMAIN wsClient.sockets, code \in CloseCodes : ClientOnClose(s, code)
  \/ ClientReconnectTimer
  \/ ClientDisconnect

SpecClient == Init /\ [][NextClient]_vars

\* C40: once disconnect() has been called, no step other than a connect() of
\* the application creates a socket; and the step that handles a close event
\* with code 4003 arms no reconnect timer.
C40_NoReconnectAfterDisconnect ==
  [][ /\ (wsClient.disconnected /\ wsClient'.event.type # "connect")
           => Len(wsClient'.sockets) = Len(wsClient.sockets)
      /\ (wsClient'.event.type = "close" /\ wsClient'.event.code = 4003)
           => wsClient'.timers = wsClient.timers ]_vars

====
